---- MODULE Spec2Model ----
(***************************************************************************)
(* Model of the monitor dispatch and execution engine of telegram-monitor  *)
(* (src/core/monitor_engine.py, src/monitors/base_monitor.py,              *)
(* src/monitors/keyword_monitor.py, src/monitors/all_messages_monitor.py,  *)
(* src/models/config.py, src/models/message.py).                           *)
(*                                                                         *)
(* The engine runs on one asyncio event loop.  Every invocation of         *)
(* process_message_event is a task; a task runs without interruption from  *)
(* one suspension point (an await that reaches the network, the AI         *)
(* service or asyncio.sleep) to the next.  Each action of this module is   *)
(* the code one task runs between two suspension points.                   *)
(*                                                                         *)
(* Python values: None of an Optional[int] is the empty set and a value n  *)
(* is {n}; a str is a sequence of one-character strings; a list is a       *)
(* sequence; a set is a set.                                               *)
(***************************************************************************)
EXTENDS Integers, Sequences, FiniteSets, TLC

\* ------------------------------------------------------------- bounds

\* Number of process_message_event invocations (tasks) of a behaviour.
NumTasks == 2

\* Number of threads that instantiate a Singleton class
NumThreads == 3

\* Cap of the number of constructor calls that return
MaxInstances == 2

\* Number of monitors registered for the account.
NumMonitors == 2

\* Largest max_executions a monitor is configured with.
MaxQuota == 2

\* Number of scheduled messages.
NumJobs == 2

\* Size the dedup cache may reach before eviction.  The program's value is
\* 10000 (monitor_engine.py:873) and it evicts 5000 = 10000 \div 2 entries;
\* the model keeps the ratio and scales the size down.
CacheLimit == 2

\* ------------------------------------------------------------- values

\* The task ids of a behaviour: DOMAIN task is 1..n for some n <= NumTasks
Tasks == 1..NumTasks

\* The job ids of the scheduled messages
Jobs == 1..NumJobs

\* Calls of _execute_scheduled_message per job in a behaviour: enough for a
\* quota of MaxQuota to be used up and one more call
MaxFirings == MaxQuota + 1

ACCOUNT_ID == "acc1"

\* account.own_user_id
OWN_USER_ID == 1

\* MonitorResult (base_monitor.py:17-22)
NO_MATCH == "no_match"
MATCHED == "matched"
BLOCKED == "blocked"
LIMIT_REACHED == "limit_reached"
ERROR == "error"

\* str.lower() on the alphabet of the model
LowerChar(ch) ==
    IF ch = "A" THEN "a" ELSE IF ch = "B" THEN "b"
    ELSE IF ch = "N" THEN "n" ELSE IF ch = "Y" THEN "y" ELSE ch

Lower(str) == [i \in 1..Len(str) |-> LowerChar(str[i])]

\* Python's  sub in str
Contains(str, sub) ==
    \E i \in 0..(Len(str) - Len(sub)) :
        \A j \in 1..Len(sub) : str[i + j] = sub[j]

\* str.strip() for the blank character " "
RECURSIVE LStrip(_)
LStrip(str) ==
    IF str # <<>> /\ Head(str) = " " THEN LStrip(Tail(str)) ELSE str

RECURSIVE RStrip(_)
RStrip(str) ==
    IF str # <<>> /\ str[Len(str)] = " "
    THEN RStrip(SubSeq(str, 1, Len(str) - 1))
    ELSE str

Strip(str) == RStrip(LStrip(str))

\* set(list)
ToSet(seq) == {seq[i] : i \in 1..Len(seq)}

\* The decimal digits
Digit == <<"0", "1", "2", "3", "4", "5", "6", "7", "8", "9">>

\* str(n) of an int n
RECURSIVE Str(_)
Str(n) ==
    IF n < 0 THEN <<"-">> \o Str(-n)
    ELSE IF n < 10 THEN <<Digit[n + 1]>>
    ELSE Append(Str(n \div 10), Digit[(n % 10) + 1])

\* str.startswith
StartsWith(str, prefix) ==
    /\ Len(str) >= Len(prefix)
    /\ SubSeq(str, 1, Len(prefix)) = prefix

\* abs
Abs(n) == IF n < 0 THEN -n ELSE n

\* getattr(obj, name, default), the attributes of obj being the fields of a
\* record
GetAttr(obj, name, default) ==
    IF name \in DOMAIN obj THEN obj[name] ELSE default

\* ------------------------------------------------------------- state

VARIABLES
    cfg,                 \* the config of each monitor object, the fields no handler writes
    monitors,            \* engine.monitors[account_id]: the registered monitors, in list order
    monitors_file,       \* data/monitor_configs.json as _save_monitors wrote it last
    execution_count,     \* config.execution_count of each monitor
    active,              \* config.active of each monitor
    matched_keyword,     \* keyword_config.matched_keyword of each monitor
    ai_configured,       \* AIService().is_configured()
    monitor_active,      \* account.monitor_active
    singleton,           \* Singleton._instances, _locks and _master_lock for one class, and the threads calling it
    faults,              \* environment: where the evaluation of each monitor raises, if at all
    forward_raises,      \* environment: the errors client.forward_messages raises, if it does
    processed_messages,  \* engine.processed_messages
    evicted,             \* history: the identities eviction has removed
    task,                \* each process_message_event invocation: position and locals
    scheduled_messages,  \* engine.scheduled_messages: the message_config dict of each job
    scheduled_messages_file, \* data/scheduled_messages.json as _save_scheduled_messages wrote it last
    scheduler,           \* engine.scheduler: the state of the job of each job id
    firing               \* each job's _execute_scheduled_message invocation: position and locals

vars == <<cfg, monitors, monitors_file, execution_count, active,
          matched_keyword, ai_configured, monitor_active, singleton,
          faults, forward_raises, processed_messages, evicted, task,
          scheduled_messages, scheduled_messages_file, scheduler, firing>>

\* The state of the scheduled messages
sched_vars == <<scheduled_messages, scheduled_messages_file, scheduler, firing>>

\* The state of the monitors and of the message dispatches
engine_vars == <<cfg, monitors, monitors_file, execution_count, active,
                 matched_keyword, monitor_active, singleton, faults,
                 forward_raises,
                 processed_messages, evicted, task>>

\* The threads that call the class of a Singleton metaclass
Threads == 1..NumThreads

\* Singleton before the first call of the class (singleton.py:12-14): no
\* instance, no lock of the class, the master lock free, every thread
\* outside the call.  completed counts the constructor calls that
\* returned, raised tells whether one raised, and after_raise whether the
\* registered instance was constructed after one that raised.
NewSingleton ==
    [instances |-> {},
     locks |-> {},
     master_lock |-> {},
     holder |-> [lock \in Threads |-> {}],
     completed |-> 0,
     raised |-> FALSE,
     after_raise |-> FALSE,
     thread |-> [th \in Threads |-> [pc |-> "idle", held |-> {}, result |-> {}]]]

\* MessageEvent.unique_id: account id, chat id and message id joined by "_".
\* The ids are integers, so the joined string determines the three parts.
UniqueId(message) == <<ACCOUNT_ID, message.chat_id, message.message_id>>

\* BaseMonitorConfig.is_execution_limit_reached
IsExecutionLimitReached(m, count) ==
    IF cfg[m].max_executions = {}
    THEN FALSE
    ELSE \E n \in cfg[m].max_executions : count[m] >= n

\* ------------------------------------------------------------- monitors

\* TelegramMessage.text_lower
TextLower(message) == Strip(Lower(message.text))

\* The patterns of the model are sequences of literal characters, of "."
\* for any character, and of "(", which nothing closes: re.compile raises
\* re.error for a pattern with a "(" and returns a pattern object otherwise
ReCompiles(pattern) == \A i \in 1..Len(pattern) : pattern[i] # "("

\* The places of the text at which the pattern matches, under re.IGNORECASE
ReMatchesAt(pattern, text) ==
    {i \in 0..(Len(text) - Len(pattern)) :
        \A j \in 1..Len(pattern) :
            pattern[j] = "." \/ LowerChar(pattern[j]) = LowerChar(text[i + j])}

\* pattern.search(text): None, or group(0) of the leftmost match
ReSearch(pattern, text) ==
    LET at == ReMatchesAt(pattern, text)
    IN  IF at = {} THEN {}
        ELSE LET i == CHOOSE i \in at : \A i2 \in at : i <= i2
             IN  {SubSeq(text, i + 1, i + Len(pattern))}

\* Mutant of RegexMatchCondition: the re.error of a pattern that does not
\* compile is not caught in the predicate
RegexMatchCondition_Raise(m, message, mk) ==
    IF ~ReCompiles(cfg[m].keyword)
    THEN [matched |-> FALSE, matched_keyword |-> mk, raised |-> TRUE]
    ELSE LET search_result == ReSearch(cfg[m].keyword, message.text)
         IN  [matched |-> search_result # {},
              matched_keyword |->
                 IF search_result # {} /\ search_result # {<<>>}
                 THEN CHOOSE matched_content \in search_result : TRUE
                 ELSE mk,
              raised |-> FALSE]

\* KeywordMonitor._match_condition for match type regex (lines 48-68) and a
\* message with text.  A pattern that did not compile in __init__ (lines
\* 22-26) is compiled again, and the re.error is caught (lines 55-63).
RegexMatchCondition(m, message, mk) ==
    IF ~ReCompiles(cfg[m].keyword)
    THEN [matched |-> FALSE, matched_keyword |-> mk, raised |-> FALSE]
    ELSE LET search_result == ReSearch(cfg[m].keyword, message.text)
         IN  [matched |-> search_result # {},
              matched_keyword |->
                 IF search_result # {} /\ search_result # {<<>>}
                 THEN CHOOSE matched_content \in search_result : TRUE
                 ELSE mk,
              raised |-> FALSE]

\* KeywordMonitor._match_condition: whether the message matches, the value
\* of matched_keyword afterwards, and whether the predicate raised.
KeywordMatchCondition(m, message, mk) ==
    LET lower_keyword == Lower(cfg[m].keyword)
        text == TextLower(message)
    IN  IF message.text = <<>>
        THEN [matched |-> FALSE, matched_keyword |-> mk, raised |-> FALSE]
        ELSE IF cfg[m].match_type = "regex"
        THEN RegexMatchCondition(m, message, mk)
        ELSE LET matched == IF cfg[m].match_type = "exact"
                            THEN text = lower_keyword
                            ELSE Contains(text, lower_keyword)
             IN  [matched |-> matched,
                  matched_keyword |->
                     IF matched /\ cfg[m].keyword # <<>>
                     THEN cfg[m].keyword ELSE mk,
                  raised |-> FALSE]

\* file_ext and config_ext of FileMonitor._match_condition (lines 73-79):
\* lower case, with a leading dot
DotLower(ext) ==
    IF StartsWith(Lower(ext), <<".">>) THEN Lower(ext) ELSE <<".">> \o Lower(ext)

\* FileConfig.is_size_valid: each bound is applied only when it is set
IsSizeValid(m, file_size_mb) ==
    /\ \A min_size \in cfg[m].min_size : ~(file_size_mb < min_size)
    /\ \A max_size \in cfg[m].max_size : ~(file_size_mb > max_size)

\* The size of the media in MB, 0 if it is not known (lines 109-116)
FileSizeMb(media) ==
    IF media.file_size_mb = {} THEN 0
    ELSE CHOOSE size \in media.file_size_mb : TRUE

\* Mutant of FileMatchCondition: a file of the configured extension matches
\* only with a size within the bounds
FileMatchCondition_Sized(m, message, mk) ==
    [matched |-> \E media \in message.media :
                    /\ media.has_media
                    /\ media.file_extension # <<>>
                    /\ DotLower(media.file_extension) = DotLower(cfg[m].file_extension)
                    /\ IsSizeValid(m, FileSizeMb(media)),
     matched_keyword |-> mk, raised |-> FALSE]

\* FileMonitor._match_condition for media that carry their file extension
\* (lines 23-33 and 72-89); media without one carry no file name and no
\* mime type in this model, and do not match (lines 69-70).  The size of
\* the file is read for the log line only (line 84).
FileMatchCondition(m, message, mk) ==
    [matched |-> \E media \in message.media :
                    /\ media.has_media
                    /\ media.file_extension # <<>>
                    /\ DotLower(media.file_extension) = DotLower(cfg[m].file_extension),
     matched_keyword |-> mk, raised |-> FALSE]

\* FileMonitor._save_file up to the download (lines 101-122): whether the
\* file of a matched message is downloaded to save_folder
SaveFile(m, message) ==
    /\ cfg[m].save_folder # {}
    /\ \E media \in message.media :
        /\ media.has_media
        /\ IsSizeValid(m, FileSizeMb(media))

\* Mutant of AllMessagesMatchCondition: a target chat id other than 0 is
\* compared with the chat of the message
AllMessagesMatchCondition_Scoped(m, message, mk) ==
    [matched |-> cfg[m].chat_id = 0 \/ message.chat_id = cfg[m].chat_id,
     matched_keyword |-> mk, raised |-> FALSE]

\* AllMessagesMonitor._match_condition
AllMessagesMatchCondition(m, message, mk) ==
    [matched |-> TRUE, matched_keyword |-> mk, raised |-> FALSE]

\* The characters of the AI monitor's keywords that are not ASCII, each
\* named by its code point
Shi == "U+662F"
Fou == "U+5426"
Bu == "U+4E0D"
Fu == "U+7B26"
He == "U+5408"
Pi == "U+5339"
Pei == "U+914D"
Pan == "U+5224"
Duan == "U+65AD"
Hui == "U+56DE"
Fu2 == "U+590D"
Wu == "U+65E0"

\* The prefixes of the structured verdict format (lines 92, 99, 102)
JudgmentPrefix == <<Pan, Duan, ":">>
ReplyPrefix == <<Hui, Fu2, ":">>

\* positive_keywords and negative_keywords of _parse_ai_response (lines
\* 119-120), in list order
PositiveKeywords ==
    <<(<<"y", "e", "s">>), (<<"y">>), (<<Shi>>), (<<Fu, He>>), (<<Pi, Pei>>),
      (<<"t", "r", "u", "e">>), (<<"1">>), (<<"m", "a", "t", "c", "h">>)>>

NegativeKeywords ==
    <<(<<"n", "o">>), (<<"n">>), (<<Fou>>), (<<Bu, Fu, He>>), (<<Bu, Pi, Pei>>),
      (<<"f", "a", "l", "s", "e">>), (<<"0">>),
      (<<"n", "o", "m", "a", "t", "c", "h">>)>>

\* The characters the pattern [^\w\s] of line 117 removes: those of the
\* model's alphabet that are neither word characters nor white space
IsPunctuation(ch) == ch \in {":", ".", ",", "!", "?", "-"}

\* re.sub(r'[^\w\s]', '', response)
RemovePunctuation(str) == SelectSeq(str, LAMBDA ch : ~IsPunctuation(ch))

\* str.split('\n')
RECURSIVE SplitLines(_)
SplitLines(str) ==
    IF \A i \in 1..Len(str) : str[i] # "\n" THEN <<str>>
    ELSE LET i == CHOOSE i \in 1..Len(str) :
                    /\ str[i] = "\n"
                    /\ \A j \in 1..(i - 1) : str[j] # "\n"
         IN  <<SubSeq(str, 1, i - 1)>> \o SplitLines(SubSeq(str, i + 1, Len(str)))

\* str.replace(sub, ""), sub not empty
RECURSIVE Replace(_, _)
Replace(str, sub) ==
    IF str = <<>> THEN <<>>
    ELSE IF StartsWith(str, sub)
    THEN Replace(SubSeq(str, Len(sub) + 1, Len(str)), sub)
    ELSE <<Head(str)>> \o Replace(Tail(str), sub)

\* judgment_result behind the loop over the lines (lines 94-101): None, or
\* the verdict of the last line that starts with the judgment prefix
RECURSIVE JudgmentResult(_, _)
JudgmentResult(lines, judgment_result) ==
    IF lines = <<>> THEN judgment_result
    ELSE LET line == Strip(Head(lines))
             judgment_part == Lower(Strip(Replace(line, JudgmentPrefix)))
         IN  JudgmentResult(Tail(lines),
                IF StartsWith(line, JudgmentPrefix)
                THEN {Contains(judgment_part, <<"y", "e", "s">>)
                        \/ Contains(judgment_part, <<Shi>>)}
                ELSE judgment_result)

\* The fallback of _parse_ai_response (lines 115-133): the positive
\* keywords are looked for first, anywhere in the response, then the
\* negative ones
FallbackVerdict(ai_response) ==
    LET response == RemovePunctuation(Strip(Lower(ai_response)))
    IN  IF \E k \in 1..Len(PositiveKeywords) : Contains(response, PositiveKeywords[k])
        THEN TRUE
        ELSE IF \E k \in 1..Len(NegativeKeywords) : Contains(response, NegativeKeywords[k])
        THEN FALSE
        ELSE FALSE

\* Mutant of ParseAIResponse: the negative keywords are looked for first
ParseAIResponse_NegativeFirst(ai_response) ==
    LET response == RemovePunctuation(Strip(Lower(ai_response)))
    IN  /\ ~\E k \in 1..Len(NegativeKeywords) : Contains(response, NegativeKeywords[k])
        /\ FallbackVerdict(ai_response)

\* AIMonitor._parse_ai_response: the structured verdict if the response
\* holds both prefixes and a line starts with the judgment prefix, else the
\* fallback
ParseAIResponse(ai_response) ==
    LET judgment_result ==
            IF Contains(ai_response, JudgmentPrefix)
                /\ Contains(ai_response, ReplyPrefix)
            THEN JudgmentResult(SplitLines(Strip(ai_response)), {})
            ELSE {}
    IN  IF judgment_result # {}
        THEN CHOOSE verdict \in judgment_result : TRUE
        ELSE FallbackVerdict(ai_response)

\* Mutant of AIMatchCondition: no answer of the AI service is an exception
AIMatchCondition_Raise(m, ai_response, mk) ==
    [matched |-> \E answer \in ai_response :
                    answer # <<>> /\ ParseAIResponse(answer),
     matched_keyword |-> mk,
     raised |-> ai_response = {}]

\* AIMonitor._match_condition behind the await of get_chat_completion
\* (lines 37-44): ai_response is None ({}) or the answer
AIMatchCondition(m, ai_response, mk) ==
    [matched |-> \E answer \in ai_response :
                    answer # <<>> /\ ParseAIResponse(answer),
     matched_keyword |-> mk,
     raised |-> FALSE]

\* AIMonitor._match_condition when the AI service is not configured
\* (lines 27-29)
AIUnconfigured(m, message, mk) ==
    [matched |-> FALSE, matched_keyword |-> mk, raised |-> FALSE]

\* monitor._match_condition, by the monitor's class.  An AI monitor comes
\* here only when the service is not configured: with the service
\* configured its predicate suspends in get_chat_completion (AwaitsAI).
MatchCondition(m, message, mk) ==
    IF cfg[m].kind = "Keyword"
    THEN KeywordMatchCondition(m, message, mk)
    ELSE IF cfg[m].kind = "File"
    THEN FileMatchCondition(m, message, mk)
    ELSE IF cfg[m].kind = "AI"
    THEN AIUnconfigured(m, message, mk)
    ELSE AllMessagesMatchCondition(m, message, mk)

\* The offset between the id of a channel and the chat id Telegram gives
\* its messages: 1000000000000 in the source, scaled to the integers of the
\* model.  str of such a chat id starts with "-100" as in the source.
ChannelBase == 1000000

\* message.sender, a MessageSender: the attributes the filters read
Sender(message) == [id |-> message.sender_id, is_bot |-> message.is_bot]

\* _match_chat_filter, the loop over channel_ids (lines 183-203): the chat
\* is the configured id, or the sender is the channel of the configured id
ChannelMatch(config_id, chat_id, sender_id) ==
    \/ chat_id = config_id
    \/ /\ config_id < 0
       /\ StartsWith(Str(config_id), <<"-", "1", "0", "0">>)
       /\ sender_id = Abs(config_id) - ChannelBase
    \/ config_id = (-ChannelBase) - Abs(sender_id)

\* Mutant of SenderIsBot: the flag is read from the attribute MessageSender
\* has
SenderIsBot_Flag(sender) == GetAttr(sender, "is_bot", FALSE)

\* sender_is_bot of _match_chat_filter (line 169): getattr(sender, 'bot',
\* False)
SenderIsBot(sender) == GetAttr(sender, "bot", FALSE)

\* BaseMonitor._match_chat_filter
MatchChatFilter(m, message) ==
    LET chat_id == message.chat_id
        sender == Sender(message)
        has_specific_ids == \/ cfg[m].bot_ids # {}
                            \/ cfg[m].channel_ids # {}
                            \/ cfg[m].group_ids # {}
        sender_id == sender.id
        sender_is_bot == SenderIsBot(sender)
    IN  has_specific_ids =>
            \/ cfg[m].bot_ids # {} /\ sender_is_bot /\ sender_id \in cfg[m].bot_ids
            \/ \E config_id \in cfg[m].channel_ids :
                    ChannelMatch(config_id, chat_id, sender_id)
            \/ \E group_id \in cfg[m].group_ids :
                    sender_id = group_id \/ chat_id = group_id

\* Mutant of ShouldProcess: the check of the sender against the account's
\* own user id is lost
ShouldProcess_OwnToo(m, message) ==
    /\ (cfg[m].chats = {} \/ message.chat_id \in cfg[m].chats)
    /\ MatchChatFilter(m, message)

\* BaseMonitor._should_process: own messages, the chat scope and the
\* precise-id filter.  The user filter passes: the monitors of this model
\* configure no users.
ShouldProcess(m, message) ==
    /\ message.sender_id # OWN_USER_ID
    /\ (cfg[m].chats = {} \/ message.chat_id \in cfg[m].chats)
    /\ MatchChatFilter(m, message)

\* Mutant of IsBlocked: the origin of a forwarded message is not looked at
IsBlocked_NoForward(m, message) ==
    LET sender == Sender(message)
    IN  \/ Str(sender.id) \in cfg[m].blocked_users
        \/ GetAttr(sender, "is_bot", FALSE) /\ sender.id \in cfg[m].blocked_bots
        \/ message.chat_id \in cfg[m].blocked_channels

\* BaseMonitor._is_blocked: str(sender.id) against blocked_users, a list of
\* str; the id of a bot against blocked_bots; the chat id and the channel
\* the message was forwarded from, if any, against blocked_channels
IsBlocked(m, message) ==
    LET sender == Sender(message)
    IN  \/ Str(sender.id) \in cfg[m].blocked_users
        \/ GetAttr(sender, "is_bot", FALSE) /\ sender.id \in cfg[m].blocked_bots
        \/ message.chat_id \in cfg[m].blocked_channels
        \/ \E id \in message.forward_from_channel_id :
                id # 0 /\ id \in cfg[m].blocked_channels

\* Mutant of ProcessMessage: the quota check in front of the block-list check
ProcessMessage_QuotaFirst(m, message, g) ==
    IF ~g.active[m] THEN [result |-> NO_MATCH, g |-> g]
    ELSE IF ~ShouldProcess(m, message) THEN [result |-> NO_MATCH, g |-> g]
    ELSE IF IsExecutionLimitReached(m, g.execution_count)
         THEN [result |-> LIMIT_REACHED, g |-> g]
    ELSE IF IsBlocked(m, message) THEN [result |-> BLOCKED, g |-> g]
    ELSE IF faults[m] = "match" THEN [result |-> ERROR, g |-> g]
    ELSE LET mc == MatchCondition(m, message, g.matched_keyword[m])
             g1 == [g EXCEPT !.matched_keyword[m] = mc.matched_keyword]
         IN  IF mc.raised THEN [result |-> ERROR, g |-> g]
             ELSE IF ~mc.matched THEN [result |-> NO_MATCH, g |-> g1]
             ELSE IF faults[m] = "log" THEN [result |-> ERROR, g |-> g1]
             ELSE [result |-> MATCHED, g |-> g1]

\* BaseMonitor.process_message: the result, and the monitor state it leaves.
\* g is the record of the monitors' mutable fields.  The body is one try
\* block (lines 52-98): an exception of the match predicate (faults[m] =
\* "match") or of the trigger log behind a match (faults[m] = "log") is
\* caught and the result is ERROR.
ProcessMessage(m, message, g) ==
    IF ~g.active[m] THEN [result |-> NO_MATCH, g |-> g]
    ELSE IF ~ShouldProcess(m, message) THEN [result |-> NO_MATCH, g |-> g]
    ELSE IF IsBlocked(m, message) THEN [result |-> BLOCKED, g |-> g]
    ELSE IF IsExecutionLimitReached(m, g.execution_count)
         THEN [result |-> LIMIT_REACHED, g |-> g]
    ELSE IF faults[m] = "match" THEN [result |-> ERROR, g |-> g]
    ELSE LET mc == MatchCondition(m, message, g.matched_keyword[m])
             g1 == [g EXCEPT !.matched_keyword[m] = mc.matched_keyword]
         IN  IF mc.raised THEN [result |-> ERROR, g |-> g]
             ELSE IF ~mc.matched THEN [result |-> NO_MATCH, g |-> g1]
             ELSE IF faults[m] = "log" THEN [result |-> ERROR, g |-> g1]
             ELSE [result |-> MATCHED, g |-> g1]

\* KeywordMonitor.get_dynamic_reply_content
KeywordDynamicReplyContent(m, mk) ==
    IF cfg[m].reply_content_type = "ai" /\ cfg[m].ai_reply_prompt # <<>>
    THEN <<>>
    ELSE IF cfg[m].reply_texts # <<>> THEN cfg[m].reply_texts
    ELSE IF mk # <<>> THEN <<mk>>
    ELSE <<>>

\* AllMessagesMonitor.get_dynamic_reply_content
AllMessagesDynamicReplyContent(m, mk) ==
    IF cfg[m].reply_content_type = "ai" THEN <<>> ELSE cfg[m].reply_texts

\* monitor.get_dynamic_reply_content(), by the monitor's class
GetDynamicReplyContent(m, g) ==
    IF cfg[m].kind = "Keyword"
    THEN KeywordDynamicReplyContent(m, g.matched_keyword[m])
    ELSE AllMessagesDynamicReplyContent(m, g.matched_keyword[m])

\* The action record _process_monitors_with_individual_modes starts from
EmptyActions ==
    [email_notify |-> FALSE,
     forward_targets |-> {},
     enhanced_forward |-> FALSE,
     reply_enabled |-> FALSE,
     reply_texts |-> <<>>,
     reply_delay_min |-> 0,
     reply_delay_max |-> 0,
     reply_mode |-> "reply",
     reply_content_type |-> "custom",
     ai_reply_prompt |-> <<>>]

\* _merge_monitor_actions, the email part (lines 460-461)
MergeEmail(m, all_actions) ==
    IF cfg[m].email_notify
    THEN [all_actions EXCEPT !.email_notify = TRUE]
    ELSE all_actions

\* _merge_monitor_actions, the forward part (lines 463-466)
MergeForward(m, all_actions) ==
    IF cfg[m].auto_forward /\ cfg[m].forward_targets # <<>>
    THEN [all_actions EXCEPT
            !.forward_targets = @ \cup ToSet(cfg[m].forward_targets),
            !.enhanced_forward = @ \/ cfg[m].enhanced_forward]
    ELSE all_actions

\* Mutant of MergeReply: a reply that is already decided does not stop a
\* later monitor from deciding it again
MergeReply_LastWins(m, all_actions, g) ==
    IF cfg[m].reply_enabled
    THEN [all_actions EXCEPT
            !.reply_enabled = TRUE,
            !.reply_content_type = cfg[m].reply_content_type,
            !.ai_reply_prompt = cfg[m].ai_reply_prompt,
            !.reply_texts = cfg[m].reply_texts,
            !.reply_delay_min = cfg[m].reply_delay_min,
            !.reply_delay_max = cfg[m].reply_delay_max,
            !.reply_mode = cfg[m].reply_mode]
    ELSE all_actions

\* _merge_monitor_actions, the reply part (lines 471-502)
MergeReply(m, all_actions, g) ==
    IF ~all_actions.reply_enabled /\ cfg[m].reply_enabled
    THEN LET dynamic_reply_texts == GetDynamicReplyContent(m, g)
             to_ai == /\ dynamic_reply_texts = <<>>
                      /\ cfg[m].reply_texts = <<>>
                      /\ cfg[m].ai_reply_prompt # <<>>
         IN  [all_actions EXCEPT
                !.reply_enabled = TRUE,
                !.reply_content_type =
                    IF to_ai THEN "ai" ELSE cfg[m].reply_content_type,
                !.ai_reply_prompt = cfg[m].ai_reply_prompt,
                !.reply_texts =
                    IF dynamic_reply_texts # <<>> THEN dynamic_reply_texts
                    ELSE IF to_ai THEN @
                    ELSE cfg[m].reply_texts,
                !.reply_delay_min = cfg[m].reply_delay_min,
                !.reply_delay_max = cfg[m].reply_delay_max,
                !.reply_mode = cfg[m].reply_mode]
    ELSE all_actions

\* MonitorEngine._merge_monitor_actions
MergeMonitorActions(m, all_actions, g) ==
    MergeReply(m, MergeForward(m, MergeEmail(m, all_actions)), g)

\* MonitorEngine._collect_monitor_actions
CollectMonitorActions(m, g) ==
    LET dynamic_reply_texts == GetDynamicReplyContent(m, g)
        base == [EmptyActions EXCEPT
                    !.email_notify = cfg[m].email_notify,
                    !.forward_targets =
                        IF cfg[m].auto_forward
                        THEN ToSet(cfg[m].forward_targets) ELSE {},
                    !.enhanced_forward =
                        IF cfg[m].auto_forward
                        THEN cfg[m].enhanced_forward ELSE FALSE]
    IN  IF cfg[m].reply_enabled
        THEN [base EXCEPT
                !.reply_enabled = TRUE,
                !.reply_content_type = cfg[m].reply_content_type,
                !.ai_reply_prompt = cfg[m].ai_reply_prompt,
                !.reply_texts =
                    IF dynamic_reply_texts # <<>> THEN dynamic_reply_texts
                    ELSE cfg[m].reply_texts,
                !.reply_delay_min = cfg[m].reply_delay_min,
                !.reply_delay_max = cfg[m].reply_delay_max,
                !.reply_mode = cfg[m].reply_mode]
        ELSE base

\* Mutant of SortInsert: a monitor goes in front of the entries of equal
\* priority, so the sort is not stable
RECURSIVE SortInsert_Unstable(_, _)
SortInsert_Unstable(sorted, m) ==
    IF sorted = <<>> THEN <<m>>
    ELSE IF cfg[sorted[Len(sorted)]].priority < cfg[m].priority
         THEN Append(sorted, m)
         ELSE Append(SortInsert_Unstable(SubSeq(sorted, 1, Len(sorted) - 1), m),
                     sorted[Len(sorted)])

\* list.sort(key=priority) of process_message: a stable insertion of each
\* monitor, in registration order, behind the entries of lower or equal
\* priority.
RECURSIVE SortInsert(_, _)
SortInsert(sorted, m) ==
    IF sorted = <<>> THEN <<m>>
    ELSE IF cfg[sorted[Len(sorted)]].priority <= cfg[m].priority
         THEN Append(sorted, m)
         ELSE Append(SortInsert(SubSeq(sorted, 1, Len(sorted) - 1), m),
                     sorted[Len(sorted)])

RECURSIVE SortByPriority(_)
SortByPriority(list) ==
    IF list = <<>> THEN <<>>
    ELSE SortInsert(SortByPriority(SubSeq(list, 1, Len(list) - 1)),
                    list[Len(list)])

\* monitors_list of process_message (lines 380-387)
MonitorsList == SortByPriority(monitors)

\* ------------------------------------------------------------- one task

\* A process_message_event invocation that has not started: the event it
\* will be called with, and empty locals.  marked, failed, evals and execs
\* are the history of the task: whether it marked its message processed and
\* went on to process_message, whether its sender lookup raised, the
\* monitors it evaluated with their results, and the action records it
\* executed with what each sent.
NewTask(message) ==
    [pc |-> "idle",
     message |-> message,
     monitors_list |-> <<>>,
     idx |-> 0,
     merge_monitors |-> <<>>,
     merge_actions |-> EmptyActions,
     actions |-> EmptyActions,
     matched_monitors |-> <<>>,
     after |-> "",
     fwd_left |-> {},
     fwd_target |-> 0,
     reply_text |-> <<>>,
     marked |-> FALSE,
     failed |-> FALSE,
     evals |-> <<>>,
     ai_calls |-> <<>>,
     execs |-> <<>>]

\* Positions from which a task goes on without suspending
RunningPcs == {"loop", "matched", "exec", "fwd", "reply", "content", "count",
               "ret"}

\* Mutant of AfterExecution: the return behind the first_match execution is
\* lost, and the loop goes on as in mode all
AfterExecution_NoReturn(execution_mode) == "continue"

\* What the loop does once the action record of a matched first_match or
\* all monitor has been executed (lines 426 and 437)
AfterExecution(execution_mode) ==
    IF execution_mode = "first_match" THEN "return" ELSE "continue"

\* The call of _execute_merged_actions(message_event, account, actions,
\* matched_monitors)
EnterExec(s, actions, matched_monitors, after) ==
    [s EXCEPT !.l.pc = "exec",
              !.l.actions = actions,
              !.l.matched_monitors = matched_monitors,
              !.l.after = after,
              !.l.execs = Append(@, [mons |-> matched_monitors,
                                     merged |-> after = "end",
                                     email |-> "none",
                                     targets |-> {},
                                     forwards |-> <<>>,
                                     sent |-> <<>>,
                                     delay |-> {},
                                     slept |-> FALSE,
                                     replies |-> <<>>,
                                     attempts |-> <<>>,
                                     counted |-> FALSE])]

\* KeywordMonitor._execute_custom_actions (lines 73-76): a regex monitor
\* with a regex_send_target_id sends what it matched to that chat, and
\* process_message suspends in _handle_regex_send before it returns
RegexSends(m) ==
    /\ cfg[m].kind = "Keyword"
    /\ cfg[m].match_type = "regex"
    /\ cfg[m].regex_send_target_id # {}

\* process_message of an AI monitor reaches the await of
\* get_chat_completion (base_monitor.py:52-69, ai_monitor.py:27-35): the
\* monitor is active, the message passes its filters, it is not blocked,
\* its quota is not met and the AI service is configured
AwaitsAI(m, message, g) ==
    /\ cfg[m].kind = "AI"
    /\ g.active[m]
    /\ ShouldProcess(m, message)
    /\ ~IsBlocked(m, message)
    /\ ~IsExecutionLimitReached(m, g.execution_count)
    /\ faults[m] # "match"
    /\ ai_configured

\* _process_monitors_with_individual_modes behind a process_message that
\* returned Matched (lines 419-451): the actions of the monitor are
\* collected, or merged, from the monitor as it is now
StepMatched(s) ==
    LET m == s.l.monitors_list[s.l.idx]
        s1 == [s EXCEPT !.l.evals = Append(@, <<m, MATCHED>>)]
    IN  IF cfg[m].execution_mode \in {"first_match", "all"}
        THEN {EnterExec(s1, CollectMonitorActions(m, s1.g), <<m>>,
                        AfterExecution(cfg[m].execution_mode))}
        ELSE {[s1 EXCEPT
                 !.l.merge_monitors = Append(@, m),
                 !.l.merge_actions = MergeMonitorActions(m, @, s1.g),
                 !.l.idx = @ + 1,
                 !.l.pc = "loop"]}

\* _process_monitors_with_individual_modes: one iteration of the loop over
\* monitors_list (lines 409-451), or the code after the loop (453-455).
\* The monitors with a regex send and the AI monitors have no fault of the
\* trigger log.
StepLoop(s) ==
    IF s.l.idx > Len(s.l.monitors_list)
    THEN IF s.l.merge_monitors # <<>>
         THEN {EnterExec(s, s.l.merge_actions, s.l.merge_monitors, "end")}
         ELSE {[s EXCEPT !.l.pc = "done"]}
    ELSE LET m == s.l.monitors_list[s.l.idx]
             r == ProcessMessage(m, s.l.message, s.g)
             s1 == [s EXCEPT !.g = r.g]
         IN  IF AwaitsAI(m, s.l.message, s.g)
             THEN {[s EXCEPT !.l.pc = "ai_match"]}
             ELSE IF r.result # MATCHED
             THEN {[s1 EXCEPT !.l.evals = Append(@, <<m, r.result>>),
                              !.l.idx = @ + 1]}
             ELSE IF RegexSends(m)
             THEN {[s1 EXCEPT !.l.pc = "regex_send"]}
             ELSE StepMatched(s1)

\* Mutant of TargetIds: the chat the message came from is not left out
TargetIds_NoFilter(actions, message) == actions.forward_targets

\* target_ids of _execute_merged_actions (line 569)
TargetIds(actions, message) ==
    {tid \in actions.forward_targets : tid # message.chat_id}

\* _execute_merged_actions, the start of the forward step (lines 568-570)
StepForward(s) ==
    LET target_ids == TargetIds(s.l.actions, s.l.message)
    IN  IF target_ids # {}
        THEN {[s EXCEPT !.l.pc = "forward",
                        !.l.fwd_left = target_ids,
                        !.l.execs[Len(s.l.execs)].targets = target_ids]}
        ELSE {[s EXCEPT !.l.pc = "reply"]}

\* _execute_merged_actions up to the forward step (lines 553-588): with
\* email_notify the record first awaits _build_enhanced_email_content,
\* which suspends in client.get_entity (line 722)
StepExec(s) ==
    IF s.l.actions.email_notify
    THEN {[s EXCEPT !.l.pc = "email_content"]}
    ELSE StepForward(s)

\* Mutant of Delays: bounds that do not span a range give the upper one
Delays_UpperWhenFixed(actions) ==
    IF actions.reply_delay_max > actions.reply_delay_min
    THEN actions.reply_delay_min..actions.reply_delay_max
    ELSE {actions.reply_delay_max}

\* The values random.uniform(min, max) is modelled to return, and the fixed
\* delay when max <= min (lines 600-603)
Delays(actions) ==
    IF actions.reply_delay_max > actions.reply_delay_min
    THEN actions.reply_delay_min..actions.reply_delay_max
    ELSE {actions.reply_delay_min}

\* _execute_merged_actions, the start of the reply step (lines 597-606)
StepReply(s) ==
    IF ~s.l.actions.reply_enabled
    THEN {[s EXCEPT !.l.pc = "count"]}
    ELSE {[s EXCEPT !.l.pc = IF delay > 0 THEN "reply_delay" ELSE "content",
                    !.l.execs[Len(s.l.execs)].delay = {delay}] :
            delay \in Delays(s.l.actions)}

\* The reply text is ready (lines 637-660): skip an empty one, else send
WithReplyText(s, reply_text) ==
    IF reply_text = <<>>
    THEN [s EXCEPT !.l.pc = "ret"]
    ELSE [s EXCEPT !.l.pc = "reply_send", !.l.reply_text = reply_text]

\* _execute_merged_actions, the choice of the reply content (lines 608-635)
StepContent(s) ==
    LET actions == s.l.actions
    IN  IF actions.reply_content_type = "ai" /\ actions.ai_reply_prompt # <<>>
        THEN IF ai_configured
             THEN {[s EXCEPT !.l.pc = "reply_ai"]}
             ELSE {[s EXCEPT !.l.pc = "ret"]}
        ELSE IF actions.reply_texts # <<>>
        THEN {WithReplyText(s, reply_text) :
                reply_text \in ToSet(actions.reply_texts)}
        ELSE {[s EXCEPT !.l.pc = "ret"]}

\* Mutant of IncrementExecution: the limit check behind the increment,
\* and with it the pause and the reset, is lost
IncrementExecution_NoPause(m, g) ==
    [g EXCEPT !.execution_count[m] = @ + 1]

\* _save_monitors (lines 259-290): what the file holds of each registered
\* monitor, in list order.  cfg stands for the attributes no handler writes.
MonitorsData(list, g) ==
    [i \in 1..Len(list) |->
        [monitor |-> list[i],
         active |-> g.active[list[i]],
         execution_count |-> g.execution_count[list[i]]]]

\* _save_monitors, called by a handler with the monitors' fields g
SaveMonitors(g) == [g EXCEPT !.monitors_file = MonitorsData(monitors, g)]

\* One iteration of the loop over matched_monitors (lines 685-699)
IncrementExecution(m, g) ==
    LET count == [g.execution_count EXCEPT ![m] = @ + 1]
    IN  IF IsExecutionLimitReached(m, count)
        THEN SaveMonitors([g EXCEPT !.active[m] = FALSE,
                                    !.execution_count[m] = 0])
        ELSE [g EXCEPT !.execution_count = count]

RECURSIVE IncrementAll(_, _)
IncrementAll(matched_monitors, g) ==
    IF matched_monitors = <<>> THEN g
    ELSE IncrementAll(Tail(matched_monitors),
                      IncrementExecution(Head(matched_monitors), g))

\* _execute_merged_actions, the quota accounting (lines 684-699)
StepCount(s) ==
    {[s EXCEPT !.g = IncrementAll(s.l.matched_monitors, s.g),
               !.l.execs[Len(s.l.execs)].counted = TRUE,
               !.l.pc = "ret"]}

\* The return of _execute_merged_actions to the loop (lines 426, 437, 455)
StepRet(s) ==
    IF s.l.after = "continue"
    THEN {[s EXCEPT !.l.pc = "loop", !.l.idx = @ + 1]}
    ELSE {[s EXCEPT !.l.pc = "done"]}

Step(s) ==
    CASE s.l.pc = "loop" -> StepLoop(s)
      [] s.l.pc = "matched" -> StepMatched(s)
      [] s.l.pc = "exec" -> StepExec(s)
      [] s.l.pc = "fwd" -> StepForward(s)
      [] s.l.pc = "reply" -> StepReply(s)
      [] s.l.pc = "content" -> StepContent(s)
      [] s.l.pc = "count" -> StepCount(s)
      [] s.l.pc = "ret" -> StepRet(s)

\* The task runs until it suspends or ends: the states it can stop in
RECURSIVE Run(_)
Run(s) ==
    IF s.l.pc \in RunningPcs
    THEN UNION {Run(s1) : s1 \in Step(s)}
    ELSE {s}

\* The monitors' mutable fields, and task t's view of the engine
Globals ==
    [execution_count |-> execution_count,
     active |-> active,
     matched_keyword |-> matched_keyword,
     monitors_file |-> monitors_file]

View(t) == [g |-> Globals, l |-> task[t]]

\* Task t resumes in state s and runs to its next suspension
Resume(t, s) ==
    \E s2 \in Run(s) :
        /\ execution_count' = s2.g.execution_count
        /\ active' = s2.g.active
        /\ matched_keyword' = s2.g.matched_keyword
        /\ monitors_file' = s2.g.monitors_file
        /\ task' = [task EXCEPT ![t] = s2.l]

\* ------------------------------------------------------------- actions

\* Mutant of Deliver: account.monitor_active is not looked at
Deliver_Always(t) ==
    /\ t \in DOMAIN task
    /\ UNCHANGED sched_vars
    /\ task[t].pc = "idle"
    /\ task' = [task EXCEPT ![t].pc = "get_sender"]
    /\ UNCHANGED <<singleton, monitor_active, cfg, monitors, monitors_file, execution_count,
                   active, matched_keyword, ai_configured, faults, forward_raises,
                   processed_messages, evicted>>

\* The event handler of setup_event_handlers calls process_message_event,
\* which returns when the monitoring of the account is off (lines 818-819)
\* and else runs to the await of event.get_sender() (line 821)
Deliver(t) ==
    /\ t \in DOMAIN task
    /\ UNCHANGED sched_vars
    /\ task[t].pc = "idle"
    /\ task' = [task EXCEPT ![t].pc = IF ~monitor_active THEN "done"
                                      ELSE "get_sender"]
    /\ UNCHANGED <<singleton, monitor_active, cfg, monitors, monitors_file, execution_count, active,
                   matched_keyword, ai_configured, faults, forward_raises,
                   processed_messages, evicted>>

\* toggle_account of the web application (web_app.py:640-652): the
\* monitoring of the account is switched on or off
ToggleAccount ==
    /\ monitor_active' = ~monitor_active
    /\ UNCHANGED <<singleton, cfg, monitors, monitors_file, execution_count, active,
                   matched_keyword, ai_configured, faults, forward_raises,
                   processed_messages, evicted, task>>
    /\ UNCHANGED sched_vars

\* _is_message_processed
IsMessageProcessed(processed, id) == id \in processed

\* Mutant of MarkMessageProcessed: the identity is not added
MarkMessageProcessed_Forget(processed, id) == processed

\* _mark_message_processed, the insertion (line 871)
MarkMessageProcessed(processed, id) == processed \cup {id}

\* Number of entries one eviction removes (5000 of 10000)
EvictCount == CacheLimit \div 2

\* Mutant of OldMessages: nothing is evicted
OldMessages_None(processed) == {{}}

\* _mark_message_processed, the eviction (lines 873-876): the entries
\* list(set)[:5000] can hold.  A set's iteration order is not the insertion
\* order, so these are any EvictCount entries of the set.
OldMessages(processed) ==
    IF Cardinality(processed) > CacheLimit
    THEN {old \in SUBSET processed : Cardinality(old) = EvictCount}
    ELSE {{}}

\* Mutant of CatchEvent: the exception leaves process_message_event
CatchEvent_Propagate(l) == [l EXCEPT !.pc = "raised", !.failed = TRUE]

\* except Exception of process_message_event (lines 851-852)
CatchEvent(l) == [l EXCEPT !.pc = "done", !.failed = TRUE]

\* process_message_event after get_sender (lines 821-852): the lookup
\* raised; or it returned, and the dedup check and mark follow, then
\* process_message up to the first suspension
Dispatch(t) ==
    /\ t \in DOMAIN task
    /\ UNCHANGED sched_vars
    /\ task[t].pc = "get_sender"
    /\ UNCHANGED <<singleton, monitor_active, cfg, monitors, faults, forward_raises, ai_configured>>
    /\ \E ok \in BOOLEAN :
        LET id == UniqueId(task[t].message)
        IN  IF ~ok
            THEN /\ task' = [task EXCEPT ![t] = CatchEvent(@)]
                 /\ UNCHANGED <<monitors_file, execution_count, active,
                                matched_keyword, processed_messages, evicted>>
            ELSE IF IsMessageProcessed(processed_messages, id)
            THEN /\ task' = [task EXCEPT ![t].pc = "done"]
                 /\ UNCHANGED <<monitors_file, execution_count, active,
                                matched_keyword, processed_messages, evicted>>
            ELSE \E old \in OldMessages(MarkMessageProcessed(processed_messages, id)) :
                 /\ processed_messages' =
                        MarkMessageProcessed(processed_messages, id) \ old
                 /\ evicted' = evicted \cup old
                 /\ Resume(t, [View(t) EXCEPT
                                 !.l.marked = TRUE,
                                 !.l.monitors_list = MonitorsList,
                                 !.l.idx = 1,
                                 !.l.pc = IF monitors = <<>> THEN "done" ELSE "loop"])

\* The forward targets are done: on to the log files and the reply step
ForwardNext(l) ==
    IF l.fwd_left = {} THEN [l EXCEPT !.pc = "reply"] ELSE [l EXCEPT !.pc = "forward"]

\* The exceptions of client.forward_messages the enhanced service tells
\* apart (enhanced_forward_service.py:63-74): ChatForwardsRestrictedError or
\* MediaEmptyError, FloodWaitError, and any other
ForwardErrors == {"restricted", "flood", "generic"}

\* An environment in which forward_messages raises no error of the first
\* two kinds
GenericError == {"generic"}

\* Mutant of AfterDirectForward: a failed forward ends the execution of the
\* action record
AfterDirectForward_Abort(l, tid, outcome) ==
    IF outcome = "ok" THEN ForwardNext(l) ELSE [l EXCEPT !.pc = "ret"]

\* What follows a forward_messages call for target tid that returned
\* (outcome "ok") or raised.  The direct loop (lines 583-588) logs and goes
\* on.  In the enhanced service _try_direct_forward returns False for every
\* exception, behind asyncio.sleep(e.seconds) for a FloodWaitError, and
\* forward_message_enhanced then calls _download_and_resend
\* (enhanced_forward_service.py:36-47 and 55-74).
AfterDirectForward(l, tid, outcome) ==
    IF outcome = "ok" \/ ~l.actions.enhanced_forward THEN ForwardNext(l)
    ELSE IF outcome = "flood"
    THEN [l EXCEPT !.pc = "flood_wait", !.fwd_target = tid]
    ELSE [l EXCEPT !.pc = "resend", !.fwd_target = tid]

\* One client.forward_messages call returns or raises.  forwards is the
\* history of the forward attempts of the action record.
Forward(t) ==
    /\ t \in DOMAIN task
    /\ UNCHANGED sched_vars
    /\ task[t].pc = "forward"
    /\ UNCHANGED <<singleton, monitor_active, cfg, monitors, faults, forward_raises, ai_configured, processed_messages, evicted>>
    /\ \E tid \in task[t].fwd_left, outcome \in {"ok"} \cup forward_raises :
        LET l == task[t]
            l1 == [l EXCEPT !.fwd_left = @ \ {tid},
                            !.execs[Len(l.execs)].forwards =
                                Append(@, [target |-> tid, via |-> "direct",
                                           outcome |-> outcome]),
                            !.execs[Len(l.execs)].sent =
                                IF outcome = "ok" THEN Append(@, tid) ELSE @]
        IN  Resume(t, [g |-> Globals, l |-> AfterDirectForward(l1, tid, outcome)])

\* asyncio.sleep(e.seconds) of _try_direct_forward returns
\* (enhanced_forward_service.py:68-71)
FloodWait(t) ==
    /\ t \in DOMAIN task
    /\ UNCHANGED sched_vars
    /\ task[t].pc = "flood_wait"
    /\ UNCHANGED <<singleton, monitor_active, cfg, monitors, monitors_file, faults, forward_raises,
                   ai_configured, processed_messages, evicted,
                   execution_count, active, matched_keyword>>
    /\ task' = [task EXCEPT ![t].pc = "resend"]

\* _download_and_resend returns True or False
\* (enhanced_forward_service.py:44-47 and 76-101)
Resend(t) ==
    /\ t \in DOMAIN task
    /\ UNCHANGED sched_vars
    /\ task[t].pc = "resend"
    /\ UNCHANGED <<singleton, monitor_active, cfg, monitors, faults, forward_raises, ai_configured, processed_messages, evicted>>
    /\ \E ok \in BOOLEAN :
        LET l == task[t]
            l1 == [l EXCEPT !.execs[Len(l.execs)].forwards =
                                Append(@, [target |-> l.fwd_target,
                                           via |-> "resend",
                                           outcome |-> IF ok THEN "ok" ELSE "failed"]),
                            !.execs[Len(l.execs)].sent =
                                IF ok THEN Append(@, l.fwd_target) ELSE @]
        IN  Resume(t, [g |-> Globals, l |-> ForwardNext(l1)])

\* asyncio.sleep(delay) returns (line 606)
ReplyDelay(t) ==
    /\ t \in DOMAIN task
    /\ UNCHANGED sched_vars
    /\ task[t].pc = "reply_delay"
    /\ UNCHANGED <<singleton, monitor_active, cfg, monitors, faults, forward_raises, ai_configured, processed_messages, evicted>>
    /\ Resume(t, [View(t) EXCEPT !.l.pc = "content",
                                 !.l.execs[Len(task[t].execs)].slept = TRUE])

\* What AIService.get_chat_completion returns: None, blanks, or a text
AiResponses == {<<>>, <<" ">>, <<"z">>}

\* ai_service.get_chat_completion returns (lines 618-626)
ReplyAI(t) ==
    /\ t \in DOMAIN task
    /\ UNCHANGED sched_vars
    /\ task[t].pc = "reply_ai"
    /\ UNCHANGED <<singleton, monitor_active, cfg, monitors, faults, forward_raises, ai_configured, processed_messages, evicted>>
    /\ \E ai_response \in AiResponses :
        Resume(t, IF ai_response # <<>>
                  THEN WithReplyText(View(t), Strip(ai_response))
                  ELSE [View(t) EXCEPT !.l.pc = "ret"])

\* The send_message call of lines 662-674 has returned or raised: with
\* reply_to, or without it in reply mode send; the except of line 675 goes
\* on to the fallback.  attempts is the history of the send_message calls
\* of the action record.
AfterReplySend(l, ok) ==
    LET reply == [text |-> l.reply_text,
                  reply_to |-> l.actions.reply_mode # "send"]
        l1 == [l EXCEPT !.execs[Len(l.execs)].attempts =
                            Append(@, [reply_to |-> reply.reply_to, ok |-> ok])]
    IN  IF ok
        THEN [l1 EXCEPT !.pc = "count",
                        !.execs[Len(l.execs)].replies = Append(@, reply)]
        ELSE [l1 EXCEPT !.pc = "reply_fallback"]

\* Mutant of AfterFallback: a failure of the fallback ends the execution of
\* the action record
AfterFallback_Abort(l, ok) ==
    LET reply == [text |-> l.reply_text, reply_to |-> FALSE]
        l1 == [l EXCEPT !.execs[Len(l.execs)].attempts =
                            Append(@, [reply_to |-> FALSE, ok |-> ok])]
    IN  IF ok
        THEN [l1 EXCEPT !.pc = "count",
                        !.execs[Len(l.execs)].replies = Append(@, reply)]
        ELSE [l1 EXCEPT !.pc = "ret"]

\* The fallback send_message call of lines 677-682 has returned or raised:
\* the except of line 681 logs, and the quota accounting follows
AfterFallback(l, ok) ==
    LET reply == [text |-> l.reply_text, reply_to |-> FALSE]
        l1 == [l EXCEPT !.execs[Len(l.execs)].attempts =
                            Append(@, [reply_to |-> FALSE, ok |-> ok])]
    IN  [l1 EXCEPT !.pc = "count",
                   !.execs[Len(l.execs)].replies =
                       IF ok THEN Append(@, reply) ELSE @]

\* The reply of lines 662-674 returns or raises: send_message with
\* reply_to, or without it in reply mode send
ReplySend(t) ==
    /\ t \in DOMAIN task
    /\ UNCHANGED sched_vars
    /\ task[t].pc = "reply_send"
    /\ UNCHANGED <<singleton, monitor_active, cfg, monitors, faults, forward_raises, ai_configured, processed_messages, evicted>>
    /\ \E ok \in BOOLEAN :
        Resume(t, [g |-> Globals, l |-> AfterReplySend(task[t], ok)])

\* The fallback send_message of lines 677-682 returns or raises
ReplyFallback(t) ==
    /\ t \in DOMAIN task
    /\ UNCHANGED sched_vars
    /\ task[t].pc = "reply_fallback"
    /\ UNCHANGED <<singleton, monitor_active, cfg, monitors, faults, forward_raises, ai_configured, processed_messages, evicted>>
    /\ \E ok \in BOOLEAN :
        Resume(t, [g |-> Globals, l |-> AfterFallback(task[t], ok)])

Next ==
    \/ \E t \in Tasks : Deliver(t)
    \/ \E t \in Tasks : Dispatch(t)
    \/ \E t \in Tasks : Forward(t)
    \/ \E t \in Tasks : Resend(t)
    \/ \E t \in Tasks : ReplyDelay(t)
    \/ \E t \in Tasks : ReplyAI(t)
    \/ \E t \in Tasks : ReplySend(t)
    \/ \E t \in Tasks : ReplyFallback(t)

\* _handle_regex_send ends (keyword_monitor.py:80-103): its sleeps and its
\* send_message have returned or raised, which it catches, and
\* process_message returns Matched
RegexSend(t) ==
    /\ t \in DOMAIN task
    /\ UNCHANGED sched_vars
    /\ task[t].pc = "regex_send"
    /\ UNCHANGED <<singleton, monitor_active, cfg, monitors, faults, forward_raises, ai_configured,
                   processed_messages, evicted>>
    /\ Resume(t, [View(t) EXCEPT !.l.pc = "matched"])

\* What get_chat_completion returns to an AI monitor (ai_service.py:
\* 89-133): None ({}) when the service is not configured, the call times
\* out or raises; else the stripped answer, which can be empty.  The
\* answers are each negative keyword alone, answers with a positive
\* keyword, answers with neither, and structured verdicts.
AiCompletions ==
    {{}, {<<>>}}
    \cup {{NegativeKeywords[k]} : k \in 1..Len(NegativeKeywords)}
    \cup {{<<"y", "e", "s">>}, {<<"Y", "e", "s", "!">>}, {<<"h", "m">>},
          {<<"?">>},
          {JudgmentPrefix \o <<" ", "n", "o", "\n">> \o ReplyPrefix \o <<" ", Wu>>},
          {JudgmentPrefix \o <<" ", "y", "e", "s", "\n">> \o ReplyPrefix \o <<" ", "h", "m">>}}

\* get_chat_completion returns to the _match_condition of an AI monitor
\* (ai_monitor.py:33-44), and process_message returns: NoMatch or Error to
\* the loop, which goes on, or Matched
AiMatch(t) ==
    /\ t \in DOMAIN task
    /\ UNCHANGED sched_vars
    /\ task[t].pc = "ai_match"
    /\ UNCHANGED <<singleton, monitor_active, cfg, monitors, faults, forward_raises, ai_configured,
                   processed_messages, evicted>>
    /\ \E ai_response \in AiCompletions :
        LET m == task[t].monitors_list[task[t].idx]
            mc == AIMatchCondition(m, ai_response, matched_keyword[m])
            s == [View(t) EXCEPT
                    !.l.ai_calls = Append(@, [monitor |-> m,
                                              ai_response |-> ai_response,
                                              eval |-> Len(task[t].evals) + 1])]
        IN  Resume(t, IF mc.raised \/ ~mc.matched
                      THEN [s EXCEPT
                              !.l.evals = Append(@, <<m, IF mc.raised THEN ERROR
                                                         ELSE NO_MATCH>>),
                              !.l.idx = @ + 1,
                              !.l.pc = "loop"]
                      ELSE [s EXCEPT !.l.pc = "matched"])

\* ---------------------------------------------------- Singleton.__call__

\* The engine, the monitors and the scheduled messages, which a call of a
\* Singleton class leaves alone
other_vars ==
    <<cfg, monitors, monitors_file, execution_count, active, matched_keyword,
      ai_configured, monitor_active, faults, forward_raises,
      processed_messages, evicted, task, scheduled_messages,
      scheduled_messages_file, scheduler, firing>>

\* Thread th goes to position pc of __call__
Goto(th, pc) == [singleton EXCEPT !.thread[th].pc = pc]

\* The exit of the with block of line 25: the thread releases the lock of
\* the class it holds
Release(s, th) ==
    [s EXCEPT !.holder = [lock \in Threads |-> s.holder[lock] \ {th}],
              !.thread[th].held = {}]

\* Mutant of NeedsConstruction: the check under the lock is lost
NeedsConstruction_Always(instances) == TRUE

\* cls not in cls._instances, under the lock of the class (line 26)
NeedsConstruction(instances) == instances = {}

\* A thread calls the class (line 16), or calls it again
Call(th) ==
    /\ singleton.thread[th].pc \in {"idle", "returned", "raised"}
    /\ singleton' = [singleton EXCEPT
                        !.thread[th] = [pc |-> "l17", held |-> {}, result |-> {}]]
    /\ UNCHANGED other_vars

\* Lines 17-18: the instance is returned if there is one
CheckInstance(th) ==
    /\ singleton.thread[th].pc = "l17"
    /\ singleton' = IF singleton.instances # {}
                    THEN [singleton EXCEPT
                            !.thread[th].pc = "returned",
                            !.thread[th].result = singleton.instances]
                    ELSE Goto(th, "l20")
    /\ UNCHANGED other_vars

\* Line 20: whether the class has a lock
CheckLock(th) ==
    /\ singleton.thread[th].pc = "l20"
    /\ singleton' = Goto(th, IF singleton.locks = {} THEN "l21" ELSE "l25")
    /\ UNCHANGED other_vars

\* Line 21: the thread acquires the master lock
AcquireMaster(th) ==
    /\ singleton.thread[th].pc = "l21"
    /\ singleton.master_lock = {}
    /\ singleton' = [Goto(th, "l22") EXCEPT !.master_lock = {th}]
    /\ UNCHANGED other_vars

\* Lines 22-23 and the exit of the with block: a lock is created for the
\* class if it still has none, and the master lock is released.  The new
\* lock object is named by the thread that creates it.
CreateLock(th) ==
    /\ singleton.thread[th].pc = "l22"
    /\ singleton' = [Goto(th, "l25") EXCEPT
                        !.locks = IF @ = {} THEN {th} ELSE @,
                        !.master_lock = {}]
    /\ UNCHANGED other_vars

\* Line 25: the thread acquires the lock of the class
AcquireLock(th) ==
    /\ singleton.thread[th].pc = "l25"
    /\ \E lock \in singleton.locks :
        /\ singleton.holder[lock] = {}
        /\ singleton' = [Goto(th, "l26") EXCEPT
                            !.holder[lock] = {th},
                            !.thread[th].held = {lock}]
    /\ UNCHANGED other_vars

\* Line 26: the second check, under the lock; with an instance the with
\* block is left
CheckUnderLock(th) ==
    /\ singleton.thread[th].pc = "l26"
    /\ singleton' = IF NeedsConstruction(singleton.instances)
                    THEN Goto(th, "l28")
                    ELSE Release(Goto(th, "l34"), th)
    /\ UNCHANGED other_vars

\* Lines 27-32: the constructor returns and the instance is registered, or
\* it raises, the exception is logged and raised again, and the with block
\* releases the lock on the way out
Construct(th) ==
    /\ singleton.thread[th].pc = "l28"
    /\ \E ok \in BOOLEAN :
        IF ok
        THEN /\ singleton.completed < MaxInstances
             /\ singleton' = [Release(Goto(th, "l34"), th) EXCEPT
                                !.instances = {singleton.completed + 1},
                                !.completed = @ + 1,
                                !.after_raise = singleton.raised]
        ELSE singleton' = [Release(Goto(th, "raised"), th) EXCEPT
                                !.raised = TRUE]
    /\ UNCHANGED other_vars

\* Line 34: the registered instance is returned
ReturnInstance(th) ==
    /\ singleton.thread[th].pc = "l34"
    /\ singleton' = [singleton EXCEPT
                        !.thread[th].pc = "returned",
                        !.thread[th].result = singleton.instances]
    /\ UNCHANGED other_vars

NextSingleton ==
    \/ \E th \in Threads : Call(th)
    \/ \E th \in Threads : CheckInstance(th)
    \/ \E th \in Threads : CheckLock(th)
    \/ \E th \in Threads : AcquireMaster(th)
    \/ \E th \in Threads : CreateLock(th)
    \/ \E th \in Threads : AcquireLock(th)
    \/ \E th \in Threads : CheckUnderLock(th)
    \/ \E th \in Threads : Construct(th)
    \/ \E th \in Threads : ReturnInstance(th)

\* ---------------------------------------------------- email notification

\* How _send_email_notification ends: the mail is sent, no recipient is
\* configured (lines 1207-1209), the SMTP settings are incomplete (1236-1243)
\* or smtplib raises (1265-1268)
EmailOutcomes == {"sent", "no_recipient", "incomplete", "smtp_error"}

\* _build_enhanced_email_content returns, whether get_entity raised or not
\* (lines 720-730), and asyncio.create_task starts the notification of the
\* record (lines 561-566); the record goes on with the forward step
EmailContent(t) ==
    /\ t \in DOMAIN task
    /\ UNCHANGED sched_vars
    /\ task[t].pc = "email_content"
    /\ UNCHANGED <<singleton, monitor_active, cfg, monitors, faults, forward_raises, ai_configured,
                   processed_messages, evicted>>
    /\ Resume(t, [View(t) EXCEPT !.l.pc = "fwd",
                                 !.l.execs[Len(task[t].execs)].email = "pending"])

\* Mutant of EmailDone: a notification that fails raises into the handler
\* that started it
EmailDone_Raise(l, e, outcome) ==
    IF outcome # "sent" /\ l.pc # "done"
    THEN [l EXCEPT !.execs[e].email = outcome, !.pc = "done", !.failed = TRUE]
    ELSE [l EXCEPT !.execs[e].email = outcome]

\* _send_email_notification_async ends (lines 1284-1288): the outcome is
\* logged, and nothing of it reaches the handler that started the task
EmailDone(l, e, outcome) == [l EXCEPT !.execs[e].email = outcome]

\* The task of _send_email_notification_async runs: it has no suspension
\* point of its own (lines 1197-1268)
SendEmailNotification(t) ==
    /\ t \in DOMAIN task
    /\ UNCHANGED sched_vars
    /\ UNCHANGED <<singleton, monitor_active, cfg, monitors, monitors_file, execution_count, active,
                   matched_keyword, ai_configured, faults, forward_raises,
                   processed_messages, evicted>>
    /\ \E e \in 1..Len(task[t].execs) : \E outcome \in EmailOutcomes :
        /\ task[t].execs[e].email = "pending"
        /\ task' = [task EXCEPT ![t] = EmailDone(task[t], e, outcome)]

\* ------------------------------------------------------------- registry

\* monitor.__class__.__name__
ClassName(m) ==
    IF cfg[m].kind = "Keyword" THEN "KeywordMonitor"
    ELSE IF cfg[m].kind = "AllMessages" THEN "AllMessagesMonitor"
    ELSE "Monitor"

\* The monitor keys of the callers, as remove_monitor splits them at "_":
\* name is the first part, index the last part if it is a number.  The web
\* application deletes by "KeywordMonitor_<i>", add_monitor is called with
\* "keyword_<keyword>"
MonitorKeys ==
    {[name |-> "KeywordMonitor", index |-> {i}] : i \in 0..NumMonitors}
        \cup {[name |-> "keyword", index |-> {}]}

\* list.pop(i) with i counted from 0
Pop(list, i) ==
    SubSeq(list, 1, i) \o SubSeq(list, i + 2, Len(list))

\* remove_monitor(account_id, monitor_key) (lines 330-361): the monitor at
\* the index of the key if there is one, else the first monitor with the
\* class name of the key, else none
RemoveByKey(list, key) ==
    IF \E i \in key.index : i < Len(list)
    THEN Pop(list, CHOOSE i \in key.index : TRUE)
    ELSE IF \E p \in 1..Len(list) : ClassName(list[p]) = key.name
    THEN Pop(list, (CHOOSE p \in 1..Len(list) :
                        /\ ClassName(list[p]) = key.name
                        /\ \A q \in 1..(p - 1) : ClassName(list[q]) # key.name) - 1)
    ELSE list

\* add_monitor(account_id, monitor, monitor_key) (lines 317-328) with a
\* monitor object that is not registered: remove_monitor for the key if
\* one is given, append, save
AddMonitor(m) ==
    /\ m \in DOMAIN cfg
    /\ m \notin ToSet(monitors)
    /\ \E keyed \in BOOLEAN, key \in MonitorKeys :
        /\ monitors' = Append(IF keyed THEN RemoveByKey(monitors, key)
                                        ELSE monitors, m)
        /\ monitors_file' = MonitorsData(monitors', Globals)
    /\ UNCHANGED <<singleton, monitor_active, cfg, execution_count, active, matched_keyword,
                   ai_configured, faults, forward_raises,
                   processed_messages, evicted, task>>
    /\ UNCHANGED sched_vars

\* Mutant of LoadMonitorConfig: active and execution_count are read from
\* the file
LoadMonitorConfig_Restoring(monitor_data) ==
    [active |-> monitor_data.active,
     execution_count |-> monitor_data.execution_count]

\* The config _load_monitors builds from an entry of the file (lines
\* 125-246): the constructor calls name the keys they read, active and
\* execution_count are not among them, and the dataclass gives them their
\* defaults (config.py:54 and 59)
LoadMonitorConfig(monitor_data) ==
    [active |-> TRUE, execution_count |-> 0]

\* A new MonitorEngine is constructed, when no dispatch and no firing is
\* in flight: __init__ starts with no monitors and an empty dedup cache
\* (lines 26-27) and calls _load_monitors (line 36), which builds a
\* monitor from each entry of the file and registers it with add_monitor,
\* which saves
LoadMonitors ==
    /\ \A t \in DOMAIN task : task[t].pc \in {"idle", "done"}
    /\ firing = <<>>
    /\ monitors' = [i \in 1..Len(monitors_file) |-> monitors_file[i].monitor]
    /\ active' = [m \in DOMAIN cfg |->
                    IF \E i \in 1..Len(monitors_file) : monitors_file[i].monitor = m
                    THEN LoadMonitorConfig(
                            monitors_file[CHOOSE i \in 1..Len(monitors_file) :
                                            monitors_file[i].monitor = m]).active
                    ELSE active[m]]
    /\ execution_count' = [m \in DOMAIN cfg |->
                    IF \E i \in 1..Len(monitors_file) : monitors_file[i].monitor = m
                    THEN LoadMonitorConfig(
                            monitors_file[CHOOSE i \in 1..Len(monitors_file) :
                                            monitors_file[i].monitor = m]).execution_count
                    ELSE execution_count[m]]
    /\ matched_keyword' = [m \in DOMAIN cfg |->
                    IF m \in ToSet(monitors') THEN <<>> ELSE matched_keyword[m]]
    /\ monitors_file' = MonitorsData(monitors', [active |-> active',
                                        execution_count |-> execution_count'])
    /\ processed_messages' = {}
    /\ UNCHANGED <<singleton, monitor_active, cfg, ai_configured, faults, forward_raises, evicted, task>>
    /\ UNCHANGED sched_vars

\* remove_monitor(account_id, monitor_key) (lines 330-361) called by
\* delete_monitor of the web application (web_app.py:659-667), with a key
\* that removes a monitor: neither of them calls _save_monitors
RemoveMonitor ==
    /\ monitors # <<>>
    /\ \E key \in MonitorKeys :
        /\ RemoveByKey(monitors, key) # monitors
        /\ monitors' = RemoveByKey(monitors, key)
    /\ UNCHANGED monitors_file
    /\ UNCHANGED <<singleton, monitor_active, cfg, execution_count, active, matched_keyword,
                   ai_configured, faults, forward_raises,
                   processed_messages, evicted, task>>
    /\ UNCHANGED sched_vars

\* clear_monitors(account_id) (lines 367-371) for an account with monitors:
\* the list is dropped and the file saved
ClearMonitors ==
    /\ monitors # <<>>
    /\ monitors' = <<>>
    /\ monitors_file' = <<>>
    /\ UNCHANGED <<singleton, monitor_active, cfg, execution_count, active, matched_keyword,
                   ai_configured, faults, forward_raises,
                   processed_messages, evicted, task>>
    /\ UNCHANGED sched_vars

\* ------------------------------------------------------------- scheduled messages

\* The state of one job as its handlers see it: m is the message_config
\* dict, j the state of the scheduler's job, f the locals of the call of
\* _execute_scheduled_message.  m.listed tells whether the dict is in
\* engine.scheduled_messages: remove_scheduled_message builds a new list
\* without it, and a call in flight keeps its reference to the dict.

\* Mutant of RemoveJob: the scheduler keeps the job
RemoveJob_Keep(j) == j

\* scheduler.remove_job: the job is gone; JobLookupError for a job that is
\* not there is swallowed by the callers
RemoveJob(j) == "absent"

\* max_executions and execution_count >= max_executions (lines 1001, 1114)
QuotaMet(max_executions, count) ==
    \E n \in max_executions : n # 0 /\ count >= n

\* int(target_id) of a str of decimal digits; the empty set for ValueError
IntOf(str) ==
    IF str = <<"2">> THEN {2}
    ELSE IF str = <<"3">> THEN {3}
    ELSE {}

\* The call returns: the handler has ended with the given outcome
End(s, outcome) ==
    [s EXCEPT !.f.pc = "idle", !.f.outcome = outcome]

\* Mutant of Abort: a call that gives up has used up one execution
Abort_ConsumesQuota(s) ==
    End([s EXCEPT !.m.execution_count = @ + 1], "aborted")

\* The returns of the call that give up this firing (lines 1015, 1023,
\* 1060-1067, 1071, 1091, 1097-1100)
Abort(s) == End(s, "aborted")

\* Mutant of CatchFiring: the exception leaves the handler
CatchFiring_Propagate(s) == [s EXCEPT !.f.pc = "raised"]

\* except Exception of _execute_scheduled_message (lines 1140-1141)
CatchFiring(s) == End(s, "error")

\* int(target_id) and the call of get_entity (lines 1080-1085)
Resolve(s) ==
    IF IntOf(s.m.target_id) = {} THEN Abort(s)
    ELSE [s EXCEPT !.f.pc = "get_entity"]

\* The body is known (lines 1069-1078): give up on a blank one, sleep for
\* random.randint(0, random_delay) if a delay is configured.  A
\* random_delay of None makes the comparison raise TypeError.
WithBody(s, message_text) ==
    LET s1 == [s EXCEPT !.f.message_text = message_text]
    IN  IF Strip(message_text) = <<>> THEN Abort(s1)
        ELSE IF s.m.random_delay = {} THEN CatchFiring(s1)
        ELSE IF \E d \in s.m.random_delay : d > 0
             THEN [s1 EXCEPT !.f.pc = "sleep"]
             ELSE Resolve(s1)

\* _execute_scheduled_message up to its first await (lines 984-1051)
FiringStart(s) ==
    IF ~s.m.listed THEN End(s, "not_found")
    ELSE IF ~s.m.active THEN End(s, "paused")
    ELSE LET s1 == [s EXCEPT !.f.execution_count = s.m.execution_count]
         IN  IF QuotaMet(s.m.max_executions, s.m.execution_count)
             THEN End([s1 EXCEPT !.j = RemoveJob(@)], "quota")
             ELSE IF s.m.account_id # ACCOUNT_ID THEN Abort(s1)
             ELSE IF s.m.use_ai /\ s.m.ai_prompt # <<>>
             THEN IF ai_configured
                  THEN [s1 EXCEPT !.f.pc = "ai"]
                  ELSE Abort(s1)
             ELSE WithBody(s1, s.m.message)

\* The file has no entry for a dict that is not in the list
NotListed == [listed |-> FALSE]

\* json.dump(self.scheduled_messages) of _save_scheduled_messages (lines
\* 1170-1180): the dicts of the list
ScheduledData(list) ==
    [job \in DOMAIN list |-> IF list[job].listed THEN list[job] ELSE NotListed]

\* _save_scheduled_messages, called by a handler of job s.job that holds
\* the dict s.m
SaveScheduledMessages(s) ==
    [s EXCEPT !.file = ScheduledData([s.list EXCEPT ![s.job] = s.m])]

\* Mutant of AfterSend: the quota is met and the job is left as it is
AfterSend_NoPause(s) ==
    End(SaveScheduledMessages(
            [s EXCEPT !.m.execution_count = s.f.execution_count + 1]), "sent")

\* The bookkeeping behind a successful send (lines 1102-1132): the count
\* read at line 999 plus one, saved; at the quota pause_job and active =
\* False, saved.  pause_job and then remove_job raise JobLookupError for a
\* job that is not there, and the except of line 1128 skips the assignment
\* of active and the second save.
AfterSend(s) ==
    LET count == s.f.execution_count + 1
        s1 == SaveScheduledMessages([s EXCEPT !.m.execution_count = count])
    IN  IF QuotaMet(s.m.max_executions, count) /\ s.j # "absent"
        THEN End(SaveScheduledMessages(
                    [s1 EXCEPT !.j = "paused", !.m.active = FALSE]), "sent")
        ELSE End(s1, "sent")

\* A call of _execute_scheduled_message that has not started.  stopped,
\* fired, sent, late and outcome are the history of the job: whether the
\* job was paused or removed when the call called send_message, the calls
\* made, the messages sent, whether one was sent by a send_message called
\* while the job was paused or removed, and how the last call ended.
NewFiring ==
    [pc |-> "idle",
     execution_count |-> 0,
     message_text |-> <<>>,
     stopped |-> FALSE,
     fired |-> 0,
     sent |-> 0,
     late |-> FALSE,
     outcome |-> ""]

\* The job with id job as its handlers see it
JobView(job) ==
    [job |-> job,
     m |-> scheduled_messages[job],
     j |-> scheduler[job],
     f |-> firing[job],
     list |-> scheduled_messages,
     file |-> scheduled_messages_file]

\* The handlers leave the job in state s
Leave(job, s) ==
    /\ scheduled_messages' = [scheduled_messages EXCEPT ![job] = s.m]
    /\ scheduled_messages_file' = s.file
    /\ scheduler' = [scheduler EXCEPT ![job] = s.j]
    /\ firing' = [firing EXCEPT ![job] = s.f]

\* The scheduler, or a caller by hand, calls _execute_scheduled_message for
\* the job, which runs to its first await.  The scheduler runs one call per
\* job at a time (max_instances is 1).
Fire(job) ==
    /\ job \in DOMAIN scheduled_messages
    /\ firing[job].pc = "idle"
    /\ firing[job].fired < MaxFirings
    /\ UNCHANGED <<engine_vars, ai_configured>>
    /\ Leave(job, FiringStart([JobView(job) EXCEPT !.f.fired = @ + 1]))

\* ai_service.get_chat_completion returns or raises (lines 1050-1067)
FireAI(job) ==
    /\ job \in DOMAIN scheduled_messages
    /\ firing[job].pc = "ai"
    /\ UNCHANGED <<engine_vars, ai_configured>>
    /\ \E ai_response \in AiResponses, ok \in BOOLEAN :
        Leave(job, IF ok /\ Strip(ai_response) # <<>>
                   THEN WithBody(JobView(job), Strip(ai_response))
                   ELSE Abort(JobView(job)))

\* asyncio.sleep(actual_delay) returns (line 1078)
FireSleep(job) ==
    /\ job \in DOMAIN scheduled_messages
    /\ firing[job].pc = "sleep"
    /\ UNCHANGED <<engine_vars, ai_configured>>
    /\ Leave(job, Resolve(JobView(job)))

\* client.get_entity returns or raises (lines 1084-1091); when it returns
\* send_message is called (line 1093)
FireEntity(job) ==
    /\ job \in DOMAIN scheduled_messages
    /\ firing[job].pc = "get_entity"
    /\ UNCHANGED <<engine_vars, ai_configured>>
    /\ \E ok \in BOOLEAN :
        LET s == JobView(job)
        IN  Leave(job, IF ok
                       THEN [s EXCEPT !.f.pc = "send",
                                      !.f.stopped = ~s.m.active \/ ~s.m.listed]
                       ELSE Abort(s))

\* client.send_message returns or raises (lines 1093-1132)
FireSend(job) ==
    /\ job \in DOMAIN scheduled_messages
    /\ firing[job].pc = "send"
    /\ UNCHANGED <<engine_vars, ai_configured>>
    /\ \E ok \in BOOLEAN :
        LET s == JobView(job)
        IN  Leave(job, IF ok
                       THEN AfterSend([s EXCEPT
                                !.f.sent = @ + 1,
                                !.f.late = @ \/ s.f.stopped])
                       ELSE Abort(s))

\* toggle_scheduled_message of the web application (web_app.py:1436-1509):
\* starting resets the count of a met quota and adds the scheduler's job
\* anew, pausing removes the scheduler's job; the list is saved
Toggle(job) ==
    /\ job \in DOMAIN scheduled_messages
    /\ scheduled_messages[job].listed
    /\ UNCHANGED <<engine_vars, ai_configured, firing>>
    /\ \E to_active \in BOOLEAN :
        LET msg == scheduled_messages[job]
        IN  IF to_active
            THEN /\ scheduled_messages' = [scheduled_messages EXCEPT ![job] =
                        [msg EXCEPT
                            !.active = TRUE,
                            !.execution_count =
                                IF QuotaMet(msg.max_executions, msg.execution_count)
                                THEN 0 ELSE @]]
                 /\ scheduler' = [scheduler EXCEPT ![job] = "scheduled"]
            ELSE /\ scheduled_messages' =
                        [scheduled_messages EXCEPT ![job].active = FALSE]
                 /\ scheduler' = [scheduler EXCEPT ![job] = RemoveJob(@)]
    /\ scheduled_messages_file' = ScheduledData(scheduled_messages')

\* update_scheduled_message of the web application (web_app.py:1356-1425),
\* the quota: the dict gets the new max_executions, and the scheduler's job
\* of an active message is removed and added anew
Update(job) ==
    /\ job \in DOMAIN scheduled_messages
    /\ scheduled_messages[job].listed
    /\ UNCHANGED <<engine_vars, ai_configured, firing>>
    /\ \E max_executions \in {{}} \cup {{n} : n \in 1..MaxQuota} :
        /\ scheduled_messages' =
               [scheduled_messages EXCEPT ![job].max_executions = max_executions]
        /\ scheduler' =
               IF scheduled_messages[job].active
               THEN [scheduler EXCEPT ![job] = "scheduled"]
               ELSE scheduler
    /\ scheduled_messages_file' = ScheduledData(scheduled_messages')

\* MonitorEngine.remove_scheduled_message (lines 1143-1168)
Remove(job) ==
    /\ job \in DOMAIN scheduled_messages
    /\ scheduled_messages[job].listed
    /\ UNCHANGED <<engine_vars, ai_configured, firing>>
    /\ scheduled_messages' = [scheduled_messages EXCEPT ![job].listed = FALSE]
    /\ scheduler' = [scheduler EXCEPT ![job] = RemoveJob(@)]
    /\ scheduled_messages_file' = ScheduledData(scheduled_messages')

\* MonitorEngine.add_scheduled_message (lines 912-966) for a job id that
\* is not in the list and has no call in flight: the new dict with
\* execution_count 0 and active True is appended, the list saved, and the
\* scheduler's job added
AddScheduledMessage(job) ==
    /\ job \in DOMAIN scheduled_messages
    /\ ~scheduled_messages[job].listed
    /\ firing[job].pc = "idle"
    /\ UNCHANGED <<engine_vars, ai_configured, firing>>
    /\ scheduled_messages' =
           [scheduled_messages EXCEPT ![job].listed = TRUE,
                                      ![job].execution_count = 0,
                                      ![job].active = TRUE]
    /\ scheduler' = [scheduler EXCEPT ![job] = "scheduled"]
    /\ scheduled_messages_file' = ScheduledData(scheduled_messages')

\* The calls of _execute_scheduled_message alone
NextFire ==
    \/ \E job \in Jobs : Fire(job)
    \/ \E job \in Jobs : FireAI(job)
    \/ \E job \in Jobs : FireSleep(job)
    \/ \E job \in Jobs : FireEntity(job)
    \/ \E job \in Jobs : FireSend(job)

\* The calls of _execute_scheduled_message and the requests of the web
\* application
NextSched ==
    \/ NextFire
    \/ \E job \in Jobs : Toggle(job)
    \/ \E job \in Jobs : Update(job)
    \/ \E job \in Jobs : Remove(job)

\* ------------------------------------------------------------- inputs

\* KeywordConfig as the dataclass builds it (config.py:38-61 and 80-93),
\* with a keyword
KeywordConfig ==
    [kind |-> "Keyword",
     keyword |-> <<"a">>,
     match_type |-> "partial",
     chats |-> {},
     bot_ids |-> {},
     channel_ids |-> {},
     group_ids |-> {},
     blocked_users |-> {},
     blocked_channels |-> {},
     blocked_bots |-> {},
     email_notify |-> FALSE,
     auto_forward |-> FALSE,
     forward_targets |-> <<>>,
     enhanced_forward |-> FALSE,
     max_executions |-> {},
     regex_send_target_id |-> {},
     priority |-> 50,
     execution_mode |-> "merge",
     reply_enabled |-> FALSE,
     reply_texts |-> <<>>,
     reply_delay_min |-> 0,
     reply_delay_max |-> 0,
     reply_mode |-> "reply",
     reply_content_type |-> "custom",
     ai_reply_prompt |-> <<>>]

\* TelegramMessage, the fields the engine reads
Message(chat_id, message_id, sender_id, text) ==
    [chat_id |-> chat_id, message_id |-> message_id,
     sender_id |-> sender_id, text |-> text,
     is_bot |-> FALSE, forward_from_channel_id |-> {}, media |-> {}]

\* No evaluation raises
NoFaults == {"none"}

\* The engine after construction and monitor registration, with the events
\* the tasks will be called with: monitors as add_monitor leaves them
\* (execution_count 0, active), nothing in flight.
InitMonitors(configs, messages, caches, raises) ==
    /\ cfg \in configs
    /\ faults \in [DOMAIN cfg -> raises]
    /\ execution_count = [m \in DOMAIN cfg |-> 0]
    /\ active = [m \in DOMAIN cfg |-> TRUE]
    /\ matched_keyword = [m \in DOMAIN cfg |-> <<>>]
    /\ ai_configured \in BOOLEAN
    /\ monitor_active = TRUE
    /\ singleton = NewSingleton
    /\ forward_raises = GenericError
    /\ processed_messages \in caches
    /\ evicted = {}
    /\ task \in {[t \in DOMAIN msgs |-> NewTask(msgs[t])] : msgs \in messages}
    /\ monitors = [m \in DOMAIN cfg |-> m]
    /\ monitors_file = MonitorsData(monitors, [active |-> active,
                                     execution_count |-> execution_count])
    /\ scheduled_messages_file = <<>>
    /\ scheduled_messages = <<>>
    /\ scheduler = <<>>
    /\ firing = <<>>

\* The same, in an environment where no evaluation raises
InitEngine(configs, messages, caches) ==
    InitMonitors(configs, messages, caches, NoFaults)

\* --- one message against monitors of every execution mode

ModeActions ==
    {[auto_forward |-> TRUE, forward_targets |-> <<200>>,
      enhanced_forward |-> TRUE],
     [auto_forward |-> TRUE, forward_targets |-> <<200>>,
      reply_enabled |-> TRUE, reply_content_type |-> "ai",
      ai_reply_prompt |-> <<"p">>,
      reply_delay_min |-> 1, reply_delay_max |-> 1]}

ModeConfigs ==
    {[execution_mode |-> mode, priority |-> priority, keyword |-> keyword]
        @@ actions @@ KeywordConfig :
        mode \in {"merge", "first_match", "all"},
        priority \in {1, 2},
        keyword \in {<<"a">>, <<"b">>},
        actions \in ModeActions}

InitModes ==
    InitEngine([1..NumMonitors -> ModeConfigs],
               {<<Message(100, 1, 7, <<"A">>)>>},
               {{}})

SpecModes == InitModes /\ [][Next]_vars

\* --- one message against merge-mode monitors

\* AllMessagesConfig as the dataclass builds it (config.py:38-61 and
\* 131-139): the fields of KeywordConfig the engine reads, and no keyword
AllMessagesConfig ==
    [kind |-> "AllMessages", keyword |-> <<>>, chat_id |-> 0] @@ KeywordConfig

\* Forward settings, each with a priority: targets without auto_forward;
\* targets that hold the chat of the message; and targets that overlap the
\* former, through the enhanced forward service
MergeForwards ==
    {[priority |-> 2, auto_forward |-> FALSE, forward_targets |-> <<400>>],
     [priority |-> 1, auto_forward |-> TRUE, forward_targets |-> <<100, 200>>],
     [priority |-> 2, auto_forward |-> TRUE, forward_targets |-> <<200, 300>>,
      enhanced_forward |-> TRUE]}

\* Reply settings of a keyword monitor: none; two fixed texts after a delay
\* drawn from 0..1; an AI reply; and no text, which replies with the
\* matched keyword
KeywordReplies ==
    {[reply_enabled |-> FALSE],
     [reply_enabled |-> TRUE, reply_texts |-> <<<<"x">>, <<"y">>>>,
      reply_delay_max |-> 1],
     [reply_enabled |-> TRUE, reply_content_type |-> "ai",
      ai_reply_prompt |-> <<"p">>],
     [reply_enabled |-> TRUE]}

\* Reply settings of an all-messages monitor: one fixed text in send mode
\* after a delay; and no text with a prompt
AllMessagesReplies ==
    {[reply_enabled |-> TRUE, reply_texts |-> <<<<"w">>>>,
      reply_mode |-> "send", reply_delay_min |-> 1, reply_delay_max |-> 1],
     [reply_enabled |-> TRUE, ai_reply_prompt |-> <<"q">>]}

MergeConfigs ==
    {forward @@ reply @@ KeywordConfig :
        forward \in MergeForwards, reply \in KeywordReplies}
    \cup
    {forward @@ reply @@ AllMessagesConfig :
        forward \in MergeForwards, reply \in AllMessagesReplies}

InitMerge ==
    InitEngine([1..NumMonitors -> MergeConfigs],
               {<<Message(100, 1, 7, <<"A">>)>>},
               {{}})

SpecMerge == InitMerge /\ [][Next]_vars

\* --- concurrent dispatches of different messages, with quotas

\* Monitors of mode merge and all, with and without a quota
QuotaConfigs ==
    {[max_executions |-> max_executions, execution_mode |-> mode]
        @@ actions @@ KeywordConfig :
        max_executions \in {{}} \cup {{n} : n \in 1..MaxQuota},
        mode \in {"merge", "all"},
        actions \in ModeActions}

\* Different messages of one chat, the cache empty
Init ==
    InitEngine([1..NumMonitors -> QuotaConfigs],
               {[t \in Tasks |-> Message(100, t, 7, <<"A">>)]},
               {{}})

Spec == Init /\ [][Next]_vars

\* --- concurrent dispatches with duplicates

\* A merge-mode monitor without a quota that forwards and replies
DedupConfigs ==
    {[auto_forward |-> TRUE, forward_targets |-> <<200>>,
      enhanced_forward |-> TRUE,
      reply_enabled |-> TRUE, reply_content_type |-> "ai",
      ai_reply_prompt |-> <<"p">>,
      reply_delay_min |-> 1, reply_delay_max |-> 1] @@ KeywordConfig}

\* The dedup cache after CacheLimit earlier messages of the chat
FullCache == {<<ACCOUNT_ID, 100, 90 + i>> : i \in 1..CacheLimit}

\* The events of the tasks: the same message more than once (two handlers
\* of one client, or a replay) or different messages of one chat; the cache
\* empty or full
InitDedup ==
    InitEngine([1..NumMonitors -> DedupConfigs],
               [Tasks -> {Message(100, 1, 7, <<"A">>),
                          Message(100, 2, 7, <<"A">>)}],
               {{}, FullCache})

SpecDedup == InitDedup /\ [][Next]_vars

\* --- dispatches one after another

\* The event handler is called for the next message once no dispatch is in
\* flight
DeliverSeq(t) ==
    /\ \A u \in DOMAIN task : task[u].pc \in {"idle", "done"}
    /\ Deliver(t)

NextSeq ==
    \/ \E t \in Tasks : DeliverSeq(t)
    \/ \E t \in Tasks : Dispatch(t)
    \/ \E t \in Tasks : Forward(t)
    \/ \E t \in Tasks : Resend(t)
    \/ \E t \in Tasks : ReplyDelay(t)
    \/ \E t \in Tasks : ReplyAI(t)
    \/ \E t \in Tasks : ReplySend(t)
    \/ \E t \in Tasks : ReplyFallback(t)

SpecSeq == Init /\ [][NextSeq]_vars

\* --- one message against monitors whose evaluation can raise

\* Monitors of every execution mode that forward and reply, with the
\* keyword of the message or another one
FaultConfigs ==
    {[execution_mode |-> mode, keyword |-> keyword,
      auto_forward |-> TRUE, forward_targets |-> <<200>>,
      enhanced_forward |-> TRUE,
      reply_enabled |-> TRUE, reply_content_type |-> "ai",
      ai_reply_prompt |-> <<"p">>,
      reply_delay_min |-> 1, reply_delay_max |-> 1] @@ KeywordConfig :
        mode \in {"merge", "first_match", "all"},
        keyword \in {<<"a">>, <<"b">>}}

\* Where an evaluation raises: nowhere, in the match predicate, or in the
\* trigger log behind a match
Faults == {"none", "match", "log"}

\* One monitor more than NumMonitors: the one that raises, and NumMonitors
\* candidates behind it
InitFault ==
    InitMonitors([1..(NumMonitors + 1) -> FaultConfigs],
                 {<<Message(100, 1, 7, <<"A">>)>>},
                 {{}},
                 Faults)

SpecFault == InitFault /\ [][Next]_vars

\* --- scheduled messages

\* The dict add_scheduled_message builds (lines 914-936): a text sent at
\* once to chat 2, no quota
ScheduledMessage ==
    [listed |-> TRUE,
     account_id |-> ACCOUNT_ID,
     target_id |-> <<"2">>,
     message |-> <<"m">>,
     random_delay |-> {0},
     use_ai |-> FALSE,
     ai_prompt |-> <<>>,
     max_executions |-> {},
     execution_count |-> 0,
     active |-> TRUE]

\* What a message sends and where: the text at once; an AI body after a
\* delay; a blank text; a target id that is no number; an account that is
\* not logged in; a delay of None
SchedProfiles ==
    {[message |-> <<"m">>],
     [use_ai |-> TRUE, ai_prompt |-> <<"p">>, message |-> <<>>,
      random_delay |-> {1}],
     [message |-> <<" ">>],
     [target_id |-> <<"x">>],
     [account_id |-> "gone"],
     [random_delay |-> {}]}

\* The quotas of a scheduled message: none, or 1..MaxQuota
Quotas == {{}} \cup {{n} : n \in 1..MaxQuota}

\* The engine after add_scheduled_message for each of the jobs: no
\* monitors, no message events, every job scheduled and no call in flight
InitJobs(jobs, configs) ==
    /\ cfg = <<>>
    /\ execution_count = <<>>
    /\ active = <<>>
    /\ matched_keyword = <<>>
    /\ faults = <<>>
    /\ ai_configured \in BOOLEAN
    /\ monitor_active = TRUE
    /\ singleton = NewSingleton
    /\ forward_raises = GenericError
    /\ processed_messages = {}
    /\ evicted = {}
    /\ task = <<>>
    /\ monitors = <<>>
    /\ monitors_file = <<>>
    /\ scheduled_messages \in [jobs -> configs]
    /\ scheduled_messages_file = ScheduledData(scheduled_messages)
    /\ scheduler = [job \in jobs |-> "scheduled"]
    /\ firing = [job \in jobs |-> NewFiring]

\* --- the firings of NumJobs scheduled messages, nothing else going on

\* Messages that can be sent, with and without a quota
FireConfigs ==
    {[max_executions |-> max_executions] @@ profile @@ ScheduledMessage :
        max_executions \in Quotas,
        profile \in {[message |-> <<"m">>],
                     [use_ai |-> TRUE, ai_prompt |-> <<"p">>, message |-> <<>>,
                      random_delay |-> {1}]}}

InitFire == InitJobs(Jobs, FireConfigs)

SpecFire == InitFire /\ [][NextFire]_vars

\* --- the firings of one scheduled message and the requests that pause,
\* --- start, update and remove it

SchedConfigs ==
    {[max_executions |-> max_executions] @@ profile @@ ScheduledMessage :
        max_executions \in Quotas,
        profile \in SchedProfiles}

InitSched == InitJobs({1}, SchedConfigs)

SpecSched == InitSched /\ [][NextSched]_vars

\* --- message events and the firings of one scheduled message together

\* A message with an AI body sent after a delay, and one whose delay is None
HandlerConfigs ==
    {[use_ai |-> TRUE, ai_prompt |-> <<"p">>, message |-> <<>>,
      random_delay |-> {1}] @@ ScheduledMessage,
     [random_delay |-> {}] @@ ScheduledMessage}

\* Monitors that forward and reply and whose evaluation can raise,
\* different messages of one chat, and one scheduled message
InitHandlers ==
    /\ cfg \in [1..NumMonitors -> DedupConfigs]
    /\ execution_count = [m \in DOMAIN cfg |-> 0]
    /\ active = [m \in DOMAIN cfg |-> TRUE]
    /\ matched_keyword = [m \in DOMAIN cfg |-> <<>>]
    /\ faults \in [DOMAIN cfg -> Faults]
    /\ ai_configured \in BOOLEAN
    /\ monitor_active = TRUE
    /\ singleton = NewSingleton
    /\ forward_raises = GenericError
    /\ processed_messages = {}
    /\ evicted = {}
    /\ task = [t \in Tasks |-> NewTask(Message(100, t, 7, <<"A">>))]
    /\ monitors = [m \in DOMAIN cfg |-> m]
    /\ monitors_file = MonitorsData(monitors, [active |-> active,
                                     execution_count |-> execution_count])
    /\ scheduled_messages \in [{1} -> HandlerConfigs]
    /\ scheduled_messages_file = ScheduledData(scheduled_messages)
    /\ scheduler = [job \in {1} |-> "scheduled"]
    /\ firing = [job \in {1} |-> NewFiring]

NextHandlers ==
    \/ Next
    \/ NextFire

SpecHandlers == InitHandlers /\ [][NextHandlers]_vars

\* --- one message against monitors in every state of the checks

\* The state a monitor is in when the message arrives, as the configuration
\* import builds it from a saved configuration (web_app.py:1815-1842): every
\* check passes, with or without a chat scope; the keyword does not match;
\* the quota is used up; the sender is blocked as well; the chat is out of
\* scope as well; the monitor is paused as well
FilterStates ==
    {[active |-> TRUE, execution_count |-> 0,
      config |-> [chats |-> {100}]],
     [active |-> TRUE, execution_count |-> 0,
      config |-> [max_executions |-> {1}]],
     [active |-> TRUE, execution_count |-> 0,
      config |-> [keyword |-> <<"b">>]],
     [active |-> TRUE, execution_count |-> 1,
      config |-> [max_executions |-> {1}]],
     [active |-> TRUE, execution_count |-> 1,
      config |-> [max_executions |-> {1}, blocked_users |-> {<<"7">>}]],
     [active |-> TRUE, execution_count |-> 1,
      config |-> [max_executions |-> {1}, blocked_users |-> {<<"7">>},
                  chats |-> {200}]],
     [active |-> FALSE, execution_count |-> 1,
      config |-> [max_executions |-> {1}, blocked_users |-> {<<"7">>}]]}

\* The monitors forward and reply
FilterMonitors ==
    {[state EXCEPT !.config = @ @@ config] :
        state \in FilterStates, config \in DedupConfigs}

\* A message of another user in chat 100, one of the account itself, and
\* one of another user in chat 300
FilterMessages ==
    {Message(100, 1, 7, <<"A">>),
     Message(100, 1, OWN_USER_ID, <<"A">>),
     Message(300, 1, 7, <<"A">>)}

InitFilter ==
    /\ \E states \in [1..NumMonitors -> FilterMonitors] :
        /\ cfg = [m \in 1..NumMonitors |-> states[m].config]
        /\ execution_count = [m \in 1..NumMonitors |-> states[m].execution_count]
        /\ active = [m \in 1..NumMonitors |-> states[m].active]
    /\ matched_keyword = [m \in DOMAIN cfg |-> <<>>]
    /\ faults \in [DOMAIN cfg -> {"none", "match"}]
    /\ ai_configured \in BOOLEAN
    /\ monitor_active = TRUE
    /\ singleton = NewSingleton
    /\ forward_raises = GenericError
    /\ processed_messages = {}
    /\ evicted = {}
    /\ task \in {<<NewTask(message)>> : message \in FilterMessages}
    /\ monitors = [m \in DOMAIN cfg |-> m]
    /\ monitors_file = MonitorsData(monitors, [active |-> active,
                                     execution_count |-> execution_count])
    /\ scheduled_messages_file = <<>>
    /\ scheduled_messages = <<>>
    /\ scheduler = <<>>
    /\ firing = <<>>

SpecFilter == InitFilter /\ [][Next]_vars

\* --- the registry, the list of scheduled messages and their files

\* Monitors with a quota of one that forward and reply
PersistConfigs == {[max_executions |-> {1}] @@ config : config \in DedupConfigs}

\* A scheduled message with a quota of one and an AI body sent after a
\* delay
PersistMessages ==
    {[max_executions |-> {1}, use_ai |-> TRUE, ai_prompt |-> <<"p">>,
      message |-> <<>>, random_delay |-> {1}] @@ ScheduledMessage}

\* NumMonitors monitor objects, the first of them registered; one message
\* event; one scheduled message, in the list or about to be added; the
\* files as the last save wrote them
InitPersist ==
    /\ cfg \in [1..NumMonitors -> PersistConfigs]
    /\ execution_count = [m \in DOMAIN cfg |-> 0]
    /\ active = [m \in DOMAIN cfg |-> TRUE]
    /\ matched_keyword = [m \in DOMAIN cfg |-> <<>>]
    /\ faults = [m \in DOMAIN cfg |-> "none"]
    /\ ai_configured = TRUE
    /\ monitor_active = TRUE
    /\ singleton = NewSingleton
    /\ forward_raises = GenericError
    /\ processed_messages = {}
    /\ evicted = {}
    /\ task = <<NewTask(Message(100, 1, 7, <<"A">>))>>
    /\ monitors = <<1>>
    /\ monitors_file = MonitorsData(monitors, [active |-> active,
                                     execution_count |-> execution_count])
    /\ \E listed \in BOOLEAN :
        /\ scheduled_messages \in
               [{1} -> {[message EXCEPT !.listed = listed] :
                            message \in PersistMessages}]
        /\ scheduler = [job \in {1} |-> IF listed THEN "scheduled" ELSE "absent"]
    /\ scheduled_messages_file = ScheduledData(scheduled_messages)
    /\ firing = [job \in {1} |-> NewFiring]

NextPersist ==
    \/ Next
    \/ \E m \in 1..NumMonitors : AddMonitor(m)
    \/ RemoveMonitor
    \/ ClearMonitors
    \/ NextFire
    \/ \E job \in Jobs : AddScheduledMessage(job)
    \/ \E job \in Jobs : Remove(job)

SpecPersist == InitPersist /\ [][NextPersist]_vars

\* --- forwards to two targets that fail in every way

\* Direct and enhanced forwarding to two targets; no reply, a fixed reply
\* text, or an AI reply after a delay
ForwardConfigs ==
    {[forward_targets |-> <<200, 300>>, enhanced_forward |-> enhanced]
        @@ reply @@ config :
        enhanced \in BOOLEAN,
        reply \in {[reply_enabled |-> FALSE],
                   [reply_content_type |-> "custom", reply_texts |-> <<<<"x">>>>,
                    reply_delay_min |-> 0, reply_delay_max |-> 0],
                   [reply_enabled |-> TRUE]},
        config \in DedupConfigs}

\* One message for monitors that forward, in an environment where
\* forward_messages raises errors of every kind
InitForward ==
    /\ cfg \in [1..NumMonitors -> ForwardConfigs]
    /\ faults = [m \in DOMAIN cfg |-> "none"]
    /\ forward_raises = ForwardErrors
    /\ execution_count = [m \in DOMAIN cfg |-> 0]
    /\ active = [m \in DOMAIN cfg |-> TRUE]
    /\ matched_keyword = [m \in DOMAIN cfg |-> <<>>]
    /\ ai_configured \in BOOLEAN
    /\ monitor_active = TRUE
    /\ singleton = NewSingleton
    /\ processed_messages = {}
    /\ evicted = {}
    /\ task = <<NewTask(Message(100, 1, 7, <<"A">>))>>
    /\ monitors = [m \in DOMAIN cfg |-> m]
    /\ monitors_file = MonitorsData(monitors, [active |-> active,
                                     execution_count |-> execution_count])
    /\ scheduled_messages = <<>>
    /\ scheduled_messages_file = <<>>
    /\ scheduler = <<>>
    /\ firing = <<>>

NextForward ==
    \/ Next
    \/ \E t \in Tasks : FloodWait(t)

SpecForward == InitForward /\ [][NextForward]_vars

\* --- action records with an email notification

\* Monitors with and without email_notify, forwarding or not, replying with
\* a fixed text or not, executed one by one or merged
EmailConfigs ==
    {[email_notify |-> email_notify, max_executions |-> {MaxQuota},
      execution_mode |-> mode] @@ forward @@ reply @@ KeywordConfig :
        email_notify \in BOOLEAN,
        mode \in {"merge", "all"},
        forward \in {[auto_forward |-> FALSE],
                     [auto_forward |-> TRUE, forward_targets |-> <<200>>]},
        reply \in {[reply_enabled |-> FALSE],
                   [reply_enabled |-> TRUE, reply_texts |-> <<<<"x">>>>]}}

\* One message for the monitors; forward_messages may raise
InitEmail ==
    /\ cfg \in [1..NumMonitors -> EmailConfigs]
    /\ faults = [m \in DOMAIN cfg |-> "none"]
    /\ forward_raises = GenericError
    /\ execution_count = [m \in DOMAIN cfg |-> 0]
    /\ active = [m \in DOMAIN cfg |-> TRUE]
    /\ matched_keyword = [m \in DOMAIN cfg |-> <<>>]
    /\ ai_configured = TRUE
    /\ monitor_active = TRUE
    /\ singleton = NewSingleton
    /\ processed_messages = {}
    /\ evicted = {}
    /\ task = <<NewTask(Message(100, 1, 7, <<"A">>))>>
    /\ monitors = [m \in DOMAIN cfg |-> m]
    /\ monitors_file = MonitorsData(monitors, [active |-> active,
                                     execution_count |-> execution_count])
    /\ scheduled_messages = <<>>
    /\ scheduled_messages_file = <<>>
    /\ scheduler = <<>>
    /\ firing = <<>>

NextEmail ==
    \/ \E t \in Tasks : Deliver(t)
    \/ \E t \in Tasks : Dispatch(t)
    \/ \E t \in Tasks : EmailContent(t)
    \/ \E t \in Tasks : SendEmailNotification(t)
    \/ \E t \in Tasks : Forward(t)
    \/ \E t \in Tasks : ReplySend(t)
    \/ \E t \in Tasks : ReplyFallback(t)

SpecEmail == InitEmail /\ [][NextEmail]_vars

\* --- replies behind a delay

\* The bounds of the reply delay: both zero, equal, a range from zero, a
\* range, and a lower bound above the upper one
DelayBounds == {<<0, 0>>, <<1, 1>>, <<0, 2>>, <<1, 2>>, <<2, 1>>, <<0, -1>>}

\* Monitors that reply with a fixed text behind a delay
DelayConfigs ==
    {[reply_enabled |-> TRUE, reply_texts |-> <<<<"x">>>>,
      reply_delay_min |-> bounds[1], reply_delay_max |-> bounds[2],
      execution_mode |-> mode] @@ KeywordConfig :
        bounds \in DelayBounds, mode \in {"merge", "all"}}

InitDelay ==
    InitEngine([1..NumMonitors -> DelayConfigs],
               [{1} -> {Message(100, 1, 7, <<"A">>)}], {{}})

NextDelay ==
    \/ \E t \in Tasks : Deliver(t)
    \/ \E t \in Tasks : Dispatch(t)
    \/ \E t \in Tasks : ReplyDelay(t)
    \/ \E t \in Tasks : ReplySend(t)
    \/ \E t \in Tasks : ReplyFallback(t)

SpecDelay == InitDelay /\ [][NextDelay]_vars

\* --- allow-lists and block-lists of ids

\* A monitor that forwards what it matches and stops after one execution
ListConfig ==
    [auto_forward |-> TRUE, forward_targets |-> <<200>>,
     execution_mode |-> "all", max_executions |-> {1}] @@ KeywordConfig

\* A message with text "A" of a sender that is a bot or not, forwarded from
\* a channel or not
MessageOf(chat_id, sender_id, is_bot, forward_from_channel_id) ==
    [Message(chat_id, 1, sender_id, <<"A">>) EXCEPT
        !.is_bot = is_bot,
        !.forward_from_channel_id = forward_from_channel_id]

\* Allow-lists of bots, channels and groups, each empty or not
IdConfigs ==
    {[bot_ids |-> bot_ids, channel_ids |-> channel_ids,
      group_ids |-> group_ids] @@ ListConfig :
        bot_ids \in {{}, {8}},
        channel_ids \in {{}, {-1000009}},
        group_ids \in {{}, {300, -300}}}

\* A user, the listed bot, a user with the id of the listed bot, the
\* listed channel as sender and as chat, the listed group as sender and as
\* chat
IdMessages ==
    {MessageOf(100, 7, FALSE, {}), MessageOf(100, 8, TRUE, {}),
     MessageOf(100, 8, FALSE, {}), MessageOf(100, 9, FALSE, {}),
     MessageOf(-1000009, 7, FALSE, {}), MessageOf(100, 300, FALSE, {}),
     MessageOf(-300, 7, FALSE, {})}

InitIds ==
    InitEngine([1..NumMonitors -> IdConfigs], [{1} -> IdMessages], {{}})

\* Block-lists of users, bots and channels, each empty or not
BlockConfigs ==
    {[blocked_users |-> blocked_users, blocked_bots |-> blocked_bots,
      blocked_channels |-> blocked_channels] @@ ListConfig :
        blocked_users \in {{}, {<<"7">>}},
        blocked_bots \in {{}, {8}},
        blocked_channels \in {{}, {-1000009}}}

\* The listed user, the listed bot, a user with the id of the listed bot,
\* a message in the listed channel, messages forwarded from the listed
\* channel and from another one, and a message of none of these
BlockMessages ==
    {MessageOf(100, 7, FALSE, {}), MessageOf(100, 8, TRUE, {}),
     MessageOf(100, 8, FALSE, {}), MessageOf(-1000009, 9, FALSE, {}),
     MessageOf(100, 9, FALSE, {-1000009}), MessageOf(100, 9, FALSE, {66}),
     MessageOf(100, 9, FALSE, {})}

InitBlock ==
    InitEngine([1..NumMonitors -> BlockConfigs], [{1} -> BlockMessages], {{}})

NextLists ==
    \/ \E t \in Tasks : Deliver(t)
    \/ \E t \in Tasks : Dispatch(t)
    \/ \E t \in Tasks : Forward(t)

SpecIds == InitIds /\ [][NextLists]_vars

SpecBlock == InitBlock /\ [][NextLists]_vars

\* --- files of several sizes

\* FileConfig for the extension "ab" (config.py:104-109), forwarding what
\* it matches
FileConfig ==
    [kind |-> "File", file_extension |-> <<"a", "b">>,
     save_folder |-> {}, min_size |-> {}, max_size |-> {}] @@ ListConfig

\* MessageMedia of a file with an extension and a size in MB
Media(file_extension, file_size_mb) ==
    [has_media |-> TRUE, file_extension |-> file_extension,
     file_size_mb |-> file_size_mb]

\* The bounds of the size, each set or not, and a save folder or none
FileConfigs ==
    {[min_size |-> min_size, max_size |-> max_size,
      save_folder |-> save_folder] @@ FileConfig :
        min_size \in {{}, {2}}, max_size \in {{}, {3}},
        save_folder \in {{}, {"downloads"}}}

\* A message without media, files ".AB" of 1, 2 and 4 MB and of unknown
\* size, and a file ".b"
FileMessages ==
    {[Message(100, 1, 7, <<>>) EXCEPT !.media = media] :
        media \in {{}} \cup
            {{Media(<<".", "A", "B">>, file_size_mb)} :
                file_size_mb \in {{}, {1}, {2}, {4}}} \cup
            {{Media(<<".", "b">>, {2})}}}

InitFile ==
    InitEngine([1..NumMonitors -> FileConfigs], [{1} -> FileMessages], {{}})

SpecFile == InitFile /\ [][NextLists]_vars

\* --- AllMessages monitors with a target chat

\* AllMessages monitors without a target chat and with the target chat 100,
\* forwarding what they match
TargetConfigs ==
    {[chat_id |-> chat_id, auto_forward |-> TRUE, forward_targets |-> <<200>>,
      execution_mode |-> "all", max_executions |-> {1}] @@ AllMessagesConfig :
        chat_id \in {0, 100}}

\* Messages of the target chat and of another chat, with and without text
TargetMessages ==
    {Message(chat_id, 1, 7, text) : chat_id \in {100, 300}, text \in {<<>>, <<"A">>}}

InitTarget ==
    InitEngine([1..NumMonitors -> TargetConfigs], [{1} -> TargetMessages], {{}})

SpecTarget == InitTarget /\ [][NextLists]_vars

\* --- regex monitors

\* Keyword monitors of match type regex whose pattern compiles or not,
\* forwarding what they match
RegexConfigs ==
    {[match_type |-> "regex", keyword |-> keyword] @@ ListConfig :
        keyword \in {<<"(">>, <<"(", "a">>, <<"a">>, <<".", "b">>}}

\* Messages without text and with texts the patterns match or not
RegexMessages ==
    {Message(100, 1, 7, text) : text \in {<<>>, <<"A">>, <<"c", "B">>, <<"c">>}}

InitRegex ==
    InitEngine([1..NumMonitors -> RegexConfigs], [{1} -> RegexMessages], {{}})

SpecRegex == InitRegex /\ [][NextLists]_vars

\* --- AI monitors

\* AIMonitorConfig with the actions of ListConfig (config.py:186-202)
AIConfig == [kind |-> "AI"] @@ ListConfig

\* An AI monitor and a keyword monitor, in either order or twice
AIConfigs == {AIConfig, ListConfig}

InitAI ==
    InitEngine([1..NumMonitors -> AIConfigs],
               {<<Message(100, 1, 7, <<"A">>)>>}, {{}})

NextAI ==
    \/ \E t \in Tasks : Deliver(t)
    \/ \E t \in Tasks : Dispatch(t)
    \/ \E t \in Tasks : AiMatch(t)
    \/ \E t \in Tasks : Forward(t)

SpecAI == InitAI /\ [][NextAI]_vars

\* --- a restart of the engine behind dispatches with quotas

\* Forwarding monitors with a quota of one, or none
ReloadConfigs ==
    {[max_executions |-> max_executions] @@ ListConfig :
        max_executions \in {{}, {1}}}

InitReload ==
    InitEngine([1..NumMonitors -> ReloadConfigs],
               {[t \in Tasks |-> Message(100, t, 7, <<"A">>)]}, {{}})

NextReload ==
    \/ NextLists
    \/ LoadMonitors

SpecReload == InitReload /\ [][NextReload]_vars

\* --- deliveries while the monitoring of the account is off and on

\* One message delivered more than once, or different messages, to
\* forwarding monitors with a quota, the monitoring switched on and off
InitAccount ==
    InitEngine([1..NumMonitors -> {ListConfig}],
               [Tasks -> {Message(100, 1, 7, <<"A">>),
                          Message(100, 2, 7, <<"A">>)}],
               {{}})

NextAccount ==
    \/ NextLists
    \/ ToggleAccount

SpecAccount == InitAccount /\ [][NextAccount]_vars

\* --- concurrent dispatches against a regex monitor that replies with
\* --- what it matched

\* Regex monitors that match any character and reply with the matched
\* text, with and without a regex send
RaceConfigs ==
    {[match_type |-> "regex", keyword |-> <<".">>,
      regex_send_target_id |-> regex_send_target_id,
      reply_enabled |-> TRUE, execution_mode |-> mode] @@ KeywordConfig :
        regex_send_target_id \in {{}, {500}},
        mode \in {"all", "merge"}}

\* Messages of one chat with texts of their own
InitRace ==
    InitEngine([1..NumMonitors -> RaceConfigs],
               {[t \in Tasks |-> Message(100, t, 7, texts[t])] :
                    texts \in [Tasks -> {<<"a">>, <<"b">>}]},
               {{}})

NextRace ==
    \/ \E t \in Tasks : Deliver(t)
    \/ \E t \in Tasks : Dispatch(t)
    \/ \E t \in Tasks : RegexSend(t)
    \/ \E t \in Tasks : ReplySend(t)
    \/ \E t \in Tasks : ReplyFallback(t)

SpecRace == InitRace /\ [][NextRace]_vars

\* --- threads that instantiate a Singleton class

\* The engine at rest, and no call of the class yet
InitSingleton ==
    InitEngine([1..NumMonitors -> {KeywordConfig}],
               {<<Message(100, 1, 7, <<"A">>)>>}, {{}})

SpecSingleton == InitSingleton /\ [][NextSingleton]_vars

\* ------------------------------------------------------------- claims

\* The action records of task t that monitor m is part of
ExecsOf(t, m) ==
    {e \in 1..Len(task[t].execs) : m \in ToSet(task[t].execs[e].mons)}

\* Task t evaluated its k-th candidate, a monitor of the given execution
\* mode, and the result was Matched
MatchedAt(t, k, mode) ==
    /\ k \in 1..Len(task[t].evals)
    /\ task[t].evals[k][2] = MATCHED
    /\ cfg[task[t].evals[k][1]].execution_mode = mode

\* C2: when a first_match monitor returns Matched for a message, its own
\* action record is executed (it is the last record the dispatch executes),
\* it is the last candidate the dispatch evaluates, and every candidate
\* behind it in priority order is left as it was: not evaluated (no
\* matched_keyword written), not executed, execution_count unchanged.
C2_FirstMatchStops ==
    \A t \in DOMAIN task :
        \A k \in 1..Len(task[t].evals) :
            MatchedAt(t, k, "first_match") =>
                /\ k = Len(task[t].evals)
                /\ task[t].execs # <<>>
                /\ task[t].execs[Len(task[t].execs)].mons = <<task[t].evals[k][1]>>
                /\ \A j \in (k + 1)..Len(task[t].monitors_list) :
                    LET later == task[t].monitors_list[j]
                    IN  /\ execution_count[later] = 0
                        /\ matched_keyword[later] = <<>>
                        /\ ExecsOf(t, later) = {}

\* A dispatch ended after a first_match monitor matched as the first of two
\* candidates, and the second one has the keyword the message holds
C2_Witness ==
    \E t \in DOMAIN task :
        /\ task[t].pc = "done"
        /\ MatchedAt(t, 1, "first_match")
        /\ Len(task[t].monitors_list) >= 2
        /\ cfg[task[t].monitors_list[2]].keyword = <<"a">>
        /\ execution_count[task[t].monitors_list[1]] = 1

\* C3: when a dispatch has ended, every merge-mode monitor that returned
\* Matched is part of exactly one action record, the combined one, and its
\* execution_count has been incremented once, whatever the other candidates
\* are.
C3_MergeMatchedExecutedOnce ==
    \A t \in DOMAIN task :
        task[t].pc = "done" =>
            \A k \in 1..Len(task[t].evals) :
                MatchedAt(t, k, "merge") =>
                    LET m == task[t].evals[k][1]
                    IN  /\ Cardinality(ExecsOf(t, m)) = 1
                        /\ \A e \in ExecsOf(t, m) : task[t].execs[e].merged
                        /\ execution_count[m] = 1

\* C4: when a dispatch has ended and two all-mode monitors returned Matched,
\* each one's own action record was executed, the one of the monitor
\* evaluated first before the other, and each execution_count has been
\* incremented once.
C4_AllBothExecute ==
    \A t \in DOMAIN task :
        task[t].pc = "done" =>
            \A k1, k2 \in 1..Len(task[t].evals) :
                (k1 < k2 /\ MatchedAt(t, k1, "all") /\ MatchedAt(t, k2, "all")) =>
                    LET m1 == task[t].evals[k1][1]
                        m2 == task[t].evals[k2][1]
                    IN  /\ \E e1, e2 \in 1..Len(task[t].execs) :
                            /\ e1 < e2
                            /\ ExecsOf(t, m1) = {e1}
                            /\ ExecsOf(t, m2) = {e2}
                            /\ task[t].execs[e1].mons = <<m1>>
                            /\ task[t].execs[e2].mons = <<m2>>
                        /\ execution_count[m1] = 1
                        /\ execution_count[m2] = 1

\* The action records of task t that have returned to the dispatch loop
Returned(t) ==
    {e \in 1..Len(task[t].execs) :
        e < Len(task[t].execs) \/ task[t].pc \in {"loop", "done"}}

\* Task t is executing, or has just executed, the combined action record of
\* its merge-mode monitors: task[t].actions is that record
InMerged(t) ==
    /\ task[t].execs # <<>>
    /\ task[t].execs[Len(task[t].execs)].merged

\* The union of the forward targets of the monitors in mons that forward
ForwardUnion(mons) ==
    UNION {ToSet(cfg[mons[i]].forward_targets) :
            i \in {j \in 1..Len(mons) : cfg[mons[j]].auto_forward}}

\* A sequence without repetitions
NoDuplicates(seq) ==
    \A i, j \in 1..Len(seq) : seq[i] = seq[j] => i = j

ReplyEnabledIn(mons) ==
    {i \in 1..Len(mons) : cfg[mons[i]].reply_enabled}

\* The first monitor of mons that has reply_enabled
FirstReplyEnabled(mons) ==
    mons[CHOOSE i \in ReplyEnabledIn(mons) :
            \A j \in ReplyEnabledIn(mons) : i <= j]

\* The texts monitor m can reply with: its reply_texts and, for a keyword
\* monitor, the keyword it matched
ReplyPool(m) ==
    ToSet(cfg[m].reply_texts)
        \cup (IF cfg[m].kind = "Keyword" THEN {cfg[m].keyword} ELSE {})

\* C6: in the combined action record of a dispatch, with first the first of
\* its monitors that has reply_enabled: the delay bounds, the reply mode
\* and the AI prompt are the ones of first; the candidate texts are from
\* the pool of first; the content source is the one first is configured
\* with, or AI when first has no text to send and has a prompt; and every
\* reply sent is a text of first's pool or, when the source is AI, an AI
\* response, sent as a reply unless first's mode is send or the fallback
\* was taken.  Without a reply-enabled monitor nothing is sent.
C6_MergedReplyByFirst ==
    \A t \in DOMAIN task :
        InMerged(t) =>
            LET exec == task[t].execs[Len(task[t].execs)]
                actions == task[t].actions
            IN  IF ReplyEnabledIn(exec.mons) = {}
                THEN ~actions.reply_enabled /\ exec.replies = <<>>
                ELSE LET first == FirstReplyEnabled(exec.mons)
                         from_ai == /\ actions.reply_content_type = "ai"
                                    /\ actions.ai_reply_prompt # <<>>
                     IN  /\ actions.reply_enabled
                         /\ actions.reply_delay_min = cfg[first].reply_delay_min
                         /\ actions.reply_delay_max = cfg[first].reply_delay_max
                         /\ actions.reply_mode = cfg[first].reply_mode
                         /\ actions.ai_reply_prompt = cfg[first].ai_reply_prompt
                         /\ ToSet(actions.reply_texts) \subseteq ReplyPool(first)
                         /\ cfg[first].reply_texts # <<>> =>
                                actions.reply_texts = cfg[first].reply_texts
                         /\ actions.reply_content_type =
                                IF /\ actions.reply_texts = <<>>
                                   /\ cfg[first].ai_reply_prompt # <<>>
                                THEN "ai" ELSE cfg[first].reply_content_type
                         /\ \A r \in 1..Len(exec.replies) :
                                /\ exec.replies[r].text \in
                                       IF from_ai
                                       THEN {Strip(a) : a \in AiResponses}
                                       ELSE ReplyPool(first)
                                /\ exec.replies[r].reply_to =>
                                       cfg[first].reply_mode = "reply"

\* Two merge-mode monitors with different reply settings both matched, and
\* the combined record sent a reply
C6_Witness ==
    \E t \in DOMAIN task :
        /\ task[t].pc = "done"
        /\ InMerged(t)
        /\ Len(task[t].execs[1].mons) = 2
        /\ cfg[task[t].execs[1].mons[1]].reply_texts = <<<<"x">>, <<"y">>>>
        /\ cfg[task[t].execs[1].mons[2]].reply_texts = <<<<"w">>>>
        /\ task[t].execs[1].replies = <<[text |-> <<"y">>, reply_to |-> TRUE]>>

\* C7: every action record that has returned to the dispatch loop went
\* through the quota accounting of its monitors, whatever its reply step
\* did.
C7_CountedWhateverReply ==
    \A t \in DOMAIN task :
        \A e \in Returned(t) : task[t].execs[e].counted

\* Two different tasks called with the same dedup identity
SameIdentity(t1, t2) ==
    /\ t1 # t2
    /\ UniqueId(task[t1].message) = UniqueId(task[t2].message)

\* Task t went past the dedup check: it marked its message and called
\* process_message
Processed(t) == task[t].marked

AllExecsOf(m) ==
    {te \in Tasks \X (1..(2 * NumMonitors)) :
        /\ te[1] \in DOMAIN task
        /\ te[2] \in ExecsOf(te[1], m)}

\* The action records with monitor m that reached the quota accounting
CountedExecsOf(m) ==
    {te \in AllExecsOf(m) : task[te[1]].execs[te[2]].counted}

\* No dispatch is in flight
Quiescent == \A t \in DOMAIN task : task[t].pc \in {"idle", "done"}

\* C8: with messages dispatched one after another and no dispatch in
\* flight, a monitor with max_executions = N >= 1 has executed its actions
\* for at most N messages; if for fewer than N, it is active and its
\* execution_count is their number; if for N, it is paused and its
\* execution_count is 0.
C8_SequentialQuota ==
    Quiescent =>
        \A m \in DOMAIN cfg : \A n \in cfg[m].max_executions :
            LET k == Cardinality(AllExecsOf(m))
            IN  /\ k <= n
                /\ k < n => (active[m] /\ execution_count[m] = k)
                /\ k = n => (~active[m] /\ execution_count[m] = 0)

\* C9: under concurrent dispatches a monitor with max_executions = N has at
\* most N executions of its actions that reach the quota accounting.
C9_AtMostNExecutions ==
    \A m \in DOMAIN cfg : \A n \in cfg[m].max_executions :
        Cardinality(CountedExecsOf(m)) <= n

Before(m1, m2) ==
    \/ cfg[m1].priority < cfg[m2].priority
    \/ cfg[m1].priority = cfg[m2].priority /\ m1 < m2

\* C11: the k-th candidate a dispatch evaluates is the monitor with k - 1
\* monitors in front of it in ascending priority, ties in registration
\* order, so with pairwise distinct priorities the order is given by the
\* priorities alone; and when the next candidate is evaluated, the action
\* record of an all-mode monitor that matched before has been executed and
\* has returned.
C11_PriorityOrderStable ==
    \A t \in DOMAIN task :
        \A k \in 1..Len(task[t].evals) :
            LET m == task[t].evals[k][1]
            IN  /\ Cardinality({m2 \in DOMAIN cfg : Before(m2, m)}) = k - 1
                /\ (k < Len(task[t].evals) /\ MatchedAt(t, k, "all")) =>
                       \E e \in Returned(t) : task[t].execs[e].mons = <<m>>

\* The monitor registered last has the lower priority value: it was
\* evaluated first, matched in mode all, and its action record was executed
\* before the monitor registered first was evaluated
C11_Witness ==
    \E t \in DOMAIN task :
        /\ task[t].pc = "done"
        /\ Len(task[t].evals) = 2
        /\ cfg[1].priority > cfg[2].priority
        /\ task[t].evals[1][1] = 2
        /\ MatchedAt(t, 1, "all")
        /\ task[t].execs # <<>>
        /\ task[t].execs[1].mons = <<2>>
        /\ task[t].evals[2][1] = 1

\* Task t evaluated a first_match monitor in front of position j and the
\* result was Matched: the dispatch has returned
StoppedBefore(t, j) ==
    \E i \in 1..(j - 1) : MatchedAt(t, i, "first_match")

\* C12: when the evaluation of a monitor ended in Error, no action record
\* holds the monitor and its execution_count is unchanged; and once the
\* dispatch has ended, every candidate behind it was evaluated unless a
\* first_match monitor had matched before, and each one that matched was
\* executed according to its mode: in a record of its own for first_match
\* and all, in the combined record for merge.
C12_ErrorTreatedAsNoMatch ==
    \A t \in DOMAIN task :
        \A k \in 1..Len(task[t].evals) :
            task[t].evals[k][2] = ERROR =>
                LET m == task[t].evals[k][1]
                IN  /\ ExecsOf(t, m) = {}
                    /\ execution_count[m] = 0
                    /\ active[m]
                    /\ task[t].pc = "done" =>
                        \A j \in (k + 1)..Len(task[t].monitors_list) :
                            LET later == task[t].monitors_list[j]
                            IN  /\ ~StoppedBefore(t, j) =>
                                    /\ j <= Len(task[t].evals)
                                    /\ task[t].evals[j][1] = later
                                /\ (j <= Len(task[t].evals)
                                        /\ task[t].evals[j][2] = MATCHED) =>
                                    \E e \in ExecsOf(t, later) :
                                        IF cfg[later].execution_mode = "merge"
                                        THEN task[t].execs[e].merged
                                        ELSE task[t].execs[e].mons = <<later>>

\* The part of C12 about the monitor that raised and the evaluation of the
\* candidates behind it, without what becomes of a merge-mode match
ErrorIsolated ==
    \A t \in DOMAIN task :
        \A k \in 1..Len(task[t].evals) :
            task[t].evals[k][2] = ERROR =>
                LET m == task[t].evals[k][1]
                IN  /\ ExecsOf(t, m) = {}
                    /\ execution_count[m] = 0
                    /\ active[m]
                    /\ task[t].pc = "done" =>
                        \A j \in (k + 1)..Len(task[t].monitors_list) :
                            LET later == task[t].monitors_list[j]
                            IN  /\ ~StoppedBefore(t, j) =>
                                    /\ j <= Len(task[t].evals)
                                    /\ task[t].evals[j][1] = later
                                /\ (j <= Len(task[t].evals)
                                        /\ task[t].evals[j][2] = MATCHED
                                        /\ cfg[later].execution_mode # "merge") =>
                                    \E e \in ExecsOf(t, later) :
                                        task[t].execs[e].mons = <<later>>

\* C13: no call of process_message_event and no call of
\* _execute_scheduled_message is left by an exception, whichever
\* collaborator fails; a message event whose sender lookup failed has marked
\* nothing, evaluated no monitor and executed no action, and a firing that
\* ended in an exception has sent nothing; the handlers are ready for the
\* next call.
C13_NoExceptionPropagates ==
    /\ \A t \in DOMAIN task :
        /\ task[t].pc # "raised"
        /\ task[t].failed =>
            /\ task[t].pc = "done"
            /\ ~task[t].marked
            /\ UniqueId(task[t].message) \in processed_messages =>
                   \E u \in DOMAIN task : u # t /\ task[u].marked
            /\ task[t].evals = <<>>
            /\ task[t].execs = <<>>
    /\ \A job \in DOMAIN firing :
        /\ firing[job].pc # "raised"
        /\ firing[job].outcome = "error" => firing[job].sent = 0

\* The sender lookup of one message event failed and a later event went
\* through its dispatch with an action record executed; a firing ended in an
\* exception and the handler was called again
C13_Witness ==
    /\ \E t, u \in DOMAIN task :
        /\ task[t].failed
        /\ task[u].pc = "done" /\ task[u].marked /\ task[u].execs # <<>>
    /\ \E job \in DOMAIN firing :
        /\ firing[job].outcome = "error"
        /\ firing[job].fired >= 2
        /\ firing[job].pc = "idle"

\* C14: a scheduled message with max_executions = N >= 1 that started
\* active with execution_count 0 has sent at most N messages, and its
\* execution_count is the number it sent; while that is below N the message
\* is active and its job scheduled; once it is N the message is paused, its
\* job is paused in the scheduler, the record is still in the list and no
\* call is in flight, so a further call ends at once and sends nothing.
C14_PausedAfterQuota ==
    \A job \in DOMAIN scheduled_messages :
        \A n \in scheduled_messages[job].max_executions :
            LET msg == scheduled_messages[job]
                sent == firing[job].sent
            IN  /\ sent <= n
                /\ msg.execution_count = sent
                /\ msg.listed
                /\ sent < n => (msg.active /\ scheduler[job] = "scheduled")
                /\ sent = n =>
                    /\ ~msg.active
                    /\ scheduler[job] = "paused"
                    /\ firing[job].pc = "idle"
                    /\ firing[job].outcome \in {"sent", "paused"}

\* A message with a quota of MaxQuota was sent MaxQuota times, and one more
\* call was made and turned away
C14_Witness ==
    \E job \in DOMAIN scheduled_messages :
        /\ scheduled_messages[job].max_executions = {MaxQuota}
        /\ scheduled_messages[job].execution_count = MaxQuota
        /\ firing[job].sent = MaxQuota
        /\ firing[job].fired = MaxQuota + 1
        /\ firing[job].outcome = "paused"

\* C15: no firing of a scheduled job calls send_message, and sends the
\* message, while the job is paused (active = False) or removed from the
\* list, whatever the interleaving of its firings with the requests that
\* pause or remove it.
C15_NoSendAfterStop ==
    \A job \in DOMAIN firing : ~firing[job].late

\* A step by which a call of _execute_scheduled_message for the job gives
\* up: a collaborator failed or there is nothing to send
AbortStep(job) ==
    /\ firing'[job].outcome \in {"aborted", "error"}
    /\ firing'[job].pc = "idle"
    /\ \/ firing[job].pc # "idle"
       \/ firing'[job].fired = firing[job].fired + 1

\* C16: a step by which a firing gives up (account missing, AI not
\* configured, failing or answering blank, blank body, target id no number,
\* entity not resolved, send failed) leaves the message_config dict as it
\* was, execution_count and active included, the dict in the list, and the
\* scheduler's job as it was.
C16_AbortLeavesJob ==
    [][\A job \in DOMAIN firing :
        AbortStep(job) =>
            /\ scheduled_messages'[job] = scheduled_messages[job]
            /\ scheduler'[job] = scheduler[job]
            /\ firing'[job].sent = firing[job].sent]_vars

\* A firing gave up behind an earlier one that gave up as well: the message
\* is active with its count at 0 and its job scheduled
C16_Witness ==
    \E job \in DOMAIN firing :
        /\ firing[job].outcome = "aborted"
        /\ firing[job].pc = "idle"
        /\ firing[job].fired = 2
        /\ firing[job].sent = 0
        /\ scheduled_messages[job].max_executions = {1}
        /\ scheduled_messages[job].execution_count = 0
        /\ scheduled_messages[job].active
        /\ scheduled_messages[job].listed
        /\ scheduler[job] = "scheduled"

\* A step that starts a call of _execute_scheduled_message for the job
FireStep(job) == firing'[job].fired = firing[job].fired + 1

\* C17: a firing that finds the message active with max_executions set and
\* execution_count >= max_executions ends at once: it sends nothing, leaves
\* the message_config dict as it was, and the scheduler is left without the
\* job; and no step of a firing puts a job back into the scheduler, so the
\* job stays out until a request adds it again.
C17_QuotaMetUnschedules ==
    [][\A job \in DOMAIN firing :
        /\ (/\ FireStep(job)
            /\ scheduled_messages[job].listed
            /\ scheduled_messages[job].active
            /\ \E n \in scheduled_messages[job].max_executions :
                   n >= 1 /\ scheduled_messages[job].execution_count >= n) =>
                /\ firing'[job].pc = "idle"
                /\ firing'[job].sent = firing[job].sent
                /\ scheduled_messages'[job] = scheduled_messages[job]
                /\ scheduler'[job] = "absent"
        /\ (firing'[job] # firing[job] /\ scheduler[job] = "absent") =>
                scheduler'[job] = "absent"]_vars

\* The quota of a message that had sent once was lowered to one, and the
\* next firing found the quota met: nothing more was sent and the scheduler
\* is without the job
C17_Witness ==
    \E job \in DOMAIN firing :
        /\ firing[job].outcome = "quota"
        /\ firing[job].pc = "idle"
        /\ firing[job].fired = 2
        /\ firing[job].sent = 1
        /\ scheduled_messages[job].max_executions = {1}
        /\ scheduled_messages[job].execution_count = 1
        /\ scheduled_messages[job].active
        /\ scheduler[job] = "absent"

\* --- C18

\* The monitor is paused
Paused(m) == ~active[m]

\* The message fails the rule filter of monitor m: it is the account's own,
\* or its chat is not in the monitor's non-empty chats list
FailsRuleFilter(m, message) ==
    \/ message.sender_id = OWN_USER_ID
    \/ cfg[m].chats # {} /\ message.chat_id \notin cfg[m].chats

\* The sender of the message is on the block list of monitor m
SenderBlocked(m, message) == Str(message.sender_id) \in cfg[m].blocked_users

\* The quota of monitor m is used up
QuotaExhausted(m) ==
    \E n \in cfg[m].max_executions : execution_count[m] >= n

\* No action record of task t reached the quota accounting: the monitors
\* are as they were when the message arrived
Uncounted(t) ==
    \A e \in 1..Len(task[t].execs) : ~task[t].execs[e].counted

\* C18: the evaluation of a monitor applies its checks in the order paused,
\* rule filter, block list, quota, match: a paused monitor gives NoMatch; an
\* active one whose rule filter the message fails gives NoMatch; behind the
\* filter a blocked sender gives Blocked; behind the block list a used-up
\* quota gives LimitReached; and the match predicate ran (the result is
\* Matched or Error, or matched_keyword was written) only when none of the
\* four holds, in which case a raising predicate gives Error.
C18_CheckOrder ==
    \A t \in DOMAIN task :
        Uncounted(t) =>
            \A k \in 1..Len(task[t].evals) :
                LET m == task[t].evals[k][1]
                    result == task[t].evals[k][2]
                    message == task[t].message
                    fails == FailsRuleFilter(m, message)
                    blocked == SenderBlocked(m, message)
                IN  /\ Paused(m) => result = NO_MATCH
                    /\ (~Paused(m) /\ fails) => result = NO_MATCH
                    /\ (~Paused(m) /\ ~fails /\ blocked) => result = BLOCKED
                    /\ (~Paused(m) /\ ~fails /\ ~blocked /\ QuotaExhausted(m))
                            => result = LIMIT_REACHED
                    /\ (result \in {MATCHED, ERROR} \/ matched_keyword[m] # <<>>)
                            => (~Paused(m) /\ ~fails /\ ~blocked
                                    /\ ~QuotaExhausted(m))
                    /\ (~Paused(m) /\ ~fails /\ ~blocked /\ ~QuotaExhausted(m)
                            /\ faults[m] = "match") => result = ERROR

\* A monitor with a blocked sender and a used-up quota gave Blocked, and a
\* paused one with both gave NoMatch, for the same message
C18_Witness ==
    \E t \in DOMAIN task :
        /\ Uncounted(t)
        /\ \E k, j \in 1..Len(task[t].evals) :
            LET m == task[t].evals[k][1]
                p == task[t].evals[j][1]
            IN  /\ ~Paused(m) /\ SenderBlocked(m, task[t].message)
                /\ QuotaExhausted(m)
                /\ task[t].evals[k][2] = BLOCKED
                /\ Paused(p) /\ SenderBlocked(p, task[t].message)
                /\ QuotaExhausted(p)
                /\ task[t].evals[j][2] = NO_MATCH

\* --- C19

\* The message of task t was sent by the account itself
OwnMessage(t) == task[t].message.sender_id = OWN_USER_ID

\* Every evaluation of an own message gave NoMatch, none wrote
\* matched_keyword, and no action record exists for it
OwnMessageRejected ==
    \A t \in DOMAIN task :
        OwnMessage(t) =>
            /\ task[t].execs = <<>>
            /\ \A k \in 1..Len(task[t].evals) :
                /\ task[t].evals[k][2] = NO_MATCH
                /\ matched_keyword[task[t].evals[k][1]] = <<>>

\* A step while only own messages are dispatched
OwnMessageStep ==
    /\ \A t \in DOMAIN task : OwnMessage(t)
    /\ \E t \in DOMAIN task : task'[t] # task[t]

\* C19: a message whose sender is the account itself gets NoMatch from every
\* monitor that evaluates it, whatever the monitor's state and configuration;
\* the match predicate does not run, no action record is executed for it,
\* and no step of its dispatch changes an execution_count or pauses a monitor.
C19_OwnMessageNeverMatches ==
    /\ []OwnMessageRejected
    /\ [][OwnMessageStep => UNCHANGED <<execution_count, active, matched_keyword>>]_vars

\* The dispatch of an own message has ended, and a monitor that is active,
\* in scope, with quota left and a matching keyword evaluated it
C19_Witness ==
    \E t \in DOMAIN task :
        /\ OwnMessage(t)
        /\ task[t].pc = "done"
        /\ \E k \in 1..Len(task[t].evals) :
            LET m == task[t].evals[k][1]
            IN  /\ active[m]
                /\ ~QuotaExhausted(m)
                /\ cfg[m].chats = {} \/ task[t].message.chat_id \in cfg[m].chats
                /\ cfg[m].blocked_users = {}
                /\ cfg[m].keyword = <<"a">>
                /\ faults[m] = "none"

\* --- C20

\* Monitor m has a chat scope, and the message is from outside of it
OutOfScope(m, message) ==
    cfg[m].chats # {} /\ message.chat_id \notin cfg[m].chats

\* Monitor m has a chat scope, and the message is from inside of it
InScope(m, message) ==
    cfg[m].chats # {} /\ message.chat_id \in cfg[m].chats

\* A monitor that evaluated a message from outside of its chat scope gave
\* NoMatch without running the match predicate, and is in no action record
ScopeRejects ==
    \A t \in DOMAIN task :
        \A k \in 1..Len(task[t].evals) :
            LET m == task[t].evals[k][1]
            IN  OutOfScope(m, task[t].message) =>
                    /\ task[t].evals[k][2] = NO_MATCH
                    /\ matched_keyword[m] = <<>>
                    /\ ExecsOf(t, m) = {}

\* A step of a dispatch changes nothing of a monitor whose chat scope the
\* message is outside of
ScopeRejectsStep ==
    \A t \in DOMAIN task : \A m \in DOMAIN cfg :
        (task'[t] # task[t] /\ OutOfScope(m, task[t].message)) =>
            /\ execution_count'[m] = execution_count[m]
            /\ active'[m] = active[m]
            /\ matched_keyword'[m] = matched_keyword[m]

\* An active monitor with quota left gave Matched for a matching message of
\* another, unblocked user from inside of its chat scope
ScopeAccepts ==
    \A t \in DOMAIN task :
        Uncounted(t) =>
            \A k \in 1..Len(task[t].evals) :
                LET m == task[t].evals[k][1]
                    message == task[t].message
                IN  (/\ InScope(m, message)
                     /\ ~Paused(m)
                     /\ message.sender_id # OWN_USER_ID
                     /\ ~SenderBlocked(m, message)
                     /\ ~QuotaExhausted(m)
                     /\ faults[m] = "none"
                     /\ MatchCondition(m, message, <<>>).matched)
                        => task[t].evals[k][2] = MATCHED

\* The action records of task t with monitor m for which every forward
\* target of the monitor other than the chat of the message was forwarded
\* to
ForwardedOf(t, m) ==
    {e \in ExecsOf(t, m) :
        {tid \in ToSet(cfg[m].forward_targets) : tid # task[t].message.chat_id}
            \subseteq task[t].execs[e].targets}

\* Once the dispatch has ended, a monitor that gave Matched for a message
\* from inside of its chat scope is in an action record that forwarded to
\* its targets
ScopeForwards ==
    \A t \in DOMAIN task :
        task[t].pc = "done" =>
            \A k \in 1..Len(task[t].evals) :
                LET m == task[t].evals[k][1]
                IN  (InScope(m, task[t].message) /\ task[t].evals[k][2] = MATCHED)
                        => ForwardedOf(t, m) # {}

\* Once the dispatch has ended, the action record of a monitor that gave
\* Matched for a message from inside of its chat scope reached the quota
\* accounting
ScopeCounts ==
    \A t \in DOMAIN task :
        task[t].pc = "done" =>
            \A k \in 1..Len(task[t].evals) :
                LET m == task[t].evals[k][1]
                IN  (InScope(m, task[t].message) /\ task[t].evals[k][2] = MATCHED)
                        => \E e \in ForwardedOf(t, m) : task[t].execs[e].counted

\* The quota accounting of an action record adds one to the execution_count
\* of each of its monitors, or pauses the monitor with execution_count 0
\* where that reaches max_executions
CountStep ==
    \A t \in DOMAIN task : \A m \in DOMAIN cfg :
        (/\ task[t].execs # <<>>
         /\ Len(task'[t].execs) = Len(task[t].execs)
         /\ m \in ToSet(task[t].execs[Len(task[t].execs)].mons)
         /\ ~task[t].execs[Len(task[t].execs)].counted
         /\ task'[t].execs[Len(task[t].execs)].counted) =>
            IF \E n \in cfg[m].max_executions : execution_count[m] + 1 >= n
            THEN ~active'[m] /\ execution_count'[m] = 0
            ELSE execution_count'[m] = execution_count[m] + 1

\* C20: a monitor with a non-empty chats list gives NoMatch for a message
\* from a chat that is not in the list, without running the match predicate
\* and without a change to the monitor or an action for it; for a matching
\* message from a chat in the list, the other checks passing, it gives
\* Matched, its forward targets are forwarded to, and the quota accounting
\* adds one to its execution_count.
C20_ChatScope ==
    /\ []ScopeRejects
    /\ [][ScopeRejectsStep]_vars
    /\ []ScopeAccepts
    /\ []ScopeForwards
    /\ []ScopeCounts
    /\ [][CountStep]_vars

\* The reply step of the last action record of task t was left with a
\* return: the record has returned without the quota accounting
ReplyReturned(t, e) ==
    /\ e \in Returned(t)
    /\ ~task[t].execs[e].counted

\* C20 up to the return in the reply step: as C20, but the action record of
\* the monitor reaches the quota accounting when a reply was sent
ChatScopeUpToReply ==
    /\ []ScopeRejects
    /\ [][ScopeRejectsStep]_vars
    /\ []ScopeAccepts
    /\ []ScopeForwards
    /\ [](\A t \in DOMAIN task : \A e \in 1..Len(task[t].execs) :
            ReplyReturned(t, e) => task[t].execs[e].replies = <<>>)
    /\ [][CountStep]_vars

\* --- C21

\* The monitors file holds the registered monitors, in list order, each
\* with its active flag
MonitorsPersisted ==
    /\ Len(monitors_file) = Len(monitors)
    /\ \A i \in 1..Len(monitors) :
        /\ monitors_file[i].monitor = monitors[i]
        /\ monitors_file[i].active = active[monitors[i]]

\* The scheduled-messages file holds the messages of the list, each with
\* its active flag
ScheduledPersisted ==
    \A job \in DOMAIN scheduled_messages :
        /\ scheduled_messages_file[job].listed = scheduled_messages[job].listed
        /\ scheduled_messages[job].listed =>
                scheduled_messages_file[job].active = scheduled_messages[job].active

\* C21: whenever no operation on the monitor registry or on the list of
\* scheduled messages is under way (the operations run without suspending,
\* so that is every state), the files agree with the memory on which
\* monitors and which scheduled messages exist and on their active flags.
C21_PersistedAgrees == MonitorsPersisted /\ ScheduledPersisted

\* --- C22

\* C22: the execution of one action record calls send_message for the reply
\* at most twice: the first call with reply_to in reply mode reply and
\* without it in reply mode send (checked for the record executed last, whose
\* actions the task still holds); a second call only behind a first one
\* that raised, and then without reply_to; once the record has returned, a
\* first call that raised was followed by exactly one more call, and the
\* record has reached the quota accounting whatever the second call did.
C22_ReplyFallbackOnce ==
    \A t \in DOMAIN task : \A e \in 1..Len(task[t].execs) :
        LET attempts == task[t].execs[e].attempts
        IN  /\ Len(attempts) <= 2
            /\ (attempts # <<>> /\ e = Len(task[t].execs)) =>
                    attempts[1].reply_to = (task[t].actions.reply_mode # "send")
            /\ Len(attempts) = 2 =>
                    /\ ~attempts[1].ok
                    /\ ~attempts[2].reply_to
            /\ (e \in Returned(t) /\ attempts # <<>>) =>
                    /\ ~attempts[1].ok => Len(attempts) = 2
                    /\ task[t].execs[e].counted

\* An action record has returned whose first reply call and whose fallback
\* both raised
C22_Witness ==
    \E t \in DOMAIN task : \E e \in Returned(t) :
        LET attempts == task[t].execs[e].attempts
        IN  /\ Len(attempts) = 2
            /\ ~attempts[2].ok
            /\ task[t].execs[e].replies = <<>>

\* --- C23

\* The forward attempts of action record e of task t for target tid made
\* in the given way
AttemptsOf(t, e, tid, via) ==
    {i \in 1..Len(task[t].execs[e].forwards) :
        /\ task[t].execs[e].forwards[i].target = tid
        /\ task[t].execs[e].forwards[i].via = via}

\* The forward step of action record e of task t is over
ForwardsOver(t, e) ==
    \/ e < Len(task[t].execs)
    \/ task[t].pc \notin {"forward", "flood_wait", "resend"}

\* The actions of task t give its reply step no reason to return early:
\* no reply, or a reply with a fixed text
NoEarlyReturn(t) ==
    \/ ~task[t].actions.reply_enabled
    \/ /\ task[t].actions.reply_texts # <<>>
       /\ ~(task[t].actions.reply_content_type = "ai"
                /\ task[t].actions.ai_reply_prompt # <<>>)

\* C23: whatever the forward attempts of an action record do, each target
\* gets at most one direct attempt and at most one download-and-resend
\* attempt, the latter only behind a failed direct attempt of enhanced
\* forwarding; once the forward step is over every target had its direct
\* attempt; and once the record has returned, its reply was attempted if it
\* has a fixed reply text and its monitors were counted if the reply step
\* has no reason to return early.
C23_ForwardFailuresIsolated ==
    \A t \in DOMAIN task : \A e \in 1..Len(task[t].execs) :
        LET exec == task[t].execs[e]
        IN  /\ \A tid \in exec.targets :
                /\ Cardinality(AttemptsOf(t, e, tid, "direct")) <= 1
                /\ Cardinality(AttemptsOf(t, e, tid, "resend")) <= 1
                /\ \A i \in AttemptsOf(t, e, tid, "resend") :
                    \E d \in AttemptsOf(t, e, tid, "direct") :
                        d < i /\ exec.forwards[d].outcome # "ok"
                /\ ForwardsOver(t, e) =>
                        Cardinality(AttemptsOf(t, e, tid, "direct")) = 1
            /\ \A i \in 1..Len(exec.forwards) : exec.forwards[i].target \in exec.targets
            /\ (e = Len(task[t].execs) /\ e \in Returned(t) /\ NoEarlyReturn(t)) =>
                    /\ exec.counted
                    /\ task[t].actions.reply_enabled => exec.attempts # <<>>

\* An action record has returned whose forwards to both targets failed,
\* direct attempt and resend, and whose reply was sent
C23_Witness ==
    \E t \in DOMAIN task : \E e \in Returned(t) :
        LET exec == task[t].execs[e]
        IN  /\ exec.targets = {200, 300}
            /\ exec.sent = <<>>
            /\ Len(exec.forwards) = 4
            /\ exec.replies # <<>>
            /\ exec.counted

\* --- C24

\* C24: in enhanced forwarding the download-and-resend attempt for a target
\* is made only behind a direct attempt that failed with a restricted or
\* unsupported error (ChatForwardsRestrictedError, MediaEmptyError).
C24_FallbackOnlyWhenRestricted ==
    \A t \in DOMAIN task : \A e \in 1..Len(task[t].execs) :
        \A i \in 1..Len(task[t].execs[e].forwards) :
            LET forwards == task[t].execs[e].forwards
            IN  forwards[i].via = "resend" =>
                    \E d \in 1..(i - 1) :
                        /\ forwards[d].target = forwards[i].target
                        /\ forwards[d].via = "direct"
                        /\ forwards[d].outcome = "restricted"

\* --- C25

\* Some monitor of action record exec forwards, resp. replies
ForwardsIn(exec) ==
    \E i \in 1..Len(exec.mons) : cfg[exec.mons[i]].auto_forward

RepliesIn(exec) ==
    \E i \in 1..Len(exec.mons) : cfg[exec.mons[i]].reply_enabled

\* No handler has an exception of a notification in it, and a returned
\* action record with a notification made its forward attempt, attempted
\* its reply and counted its monitors
EmailIsolated ==
    \A t \in DOMAIN task : \A e \in 1..Len(task[t].execs) :
        LET exec == task[t].execs[e]
        IN  exec.email # "none" =>
                /\ ~task[t].failed
                /\ e \in Returned(t) =>
                        /\ ForwardsIn(exec) => Len(exec.forwards) = 1
                        /\ RepliesIn(exec) => exec.attempts # <<>>
                        /\ exec.counted

\* The step in which a notification ends changes the email field of its
\* action record and nothing else
EmailStep ==
    \A t \in DOMAIN task : \A e \in 1..Len(task[t].execs) :
        (task[t].execs[e].email = "pending"
            /\ task'[t].execs[e].email # "pending") =>
                /\ task' = [task EXCEPT
                                ![t].execs[e].email = task'[t].execs[e].email]
                /\ UNCHANGED <<execution_count, active, monitors_file>>

\* C25: an email notification that fails (no recipient, incomplete SMTP
\* settings, SMTP error) raises nothing into the execution of its action
\* record and prevents none of its forward, reply and quota steps: the
\* notification runs as a task of its own whose end changes nothing of the
\* handler, and the record's remaining steps go on while it is pending.
C25_EmailFailureIsolated == []EmailIsolated /\ [][EmailStep]_vars

\* One handler has returned from two action records, both with a forward
\* attempt, a reply and their monitors counted: the notification of the
\* first failed with an SMTP error, that of the second has not run yet
C25_Witness ==
    \E t \in DOMAIN task :
        /\ task[t].pc = "done"
        /\ Len(task[t].execs) = 2
        /\ task[t].execs[1].email = "smtp_error"
        /\ task[t].execs[2].email = "pending"
        /\ \A e \in 1..2 :
            /\ task[t].execs[e].forwards # <<>>
            /\ task[t].execs[e].attempts # <<>>
            /\ task[t].execs[e].counted

\* --- C26

\* C26: a reply whose delay bounds are both 0 is sent without a delay
\* suspension; the reply step suspends for its delay only if the computed
\* delay is above 0; the computed delay lies between reply_delay_min and
\* reply_delay_max when max > min and is reply_delay_min when max <= min.
C26_ReplyDelay ==
    \A t \in DOMAIN task :
        (task[t].execs # <<>> /\ task[t].actions.reply_enabled) =>
            LET exec == task[t].execs[Len(task[t].execs)]
                min == task[t].actions.reply_delay_min
                max == task[t].actions.reply_delay_max
                suspended == task[t].pc = "reply_delay" \/ exec.slept
            IN  /\ suspended => \E d \in exec.delay : d > 0
                /\ (min = 0 /\ max = 0) => ~suspended
                /\ \A d \in exec.delay :
                    /\ max > min => (min <= d /\ d <= max)
                    /\ max <= min => d = min

\* A reply with bounds 0 and 0 was sent without a suspension
C26_Witness ==
    \E t \in DOMAIN task :
        /\ task[t].execs # <<>>
        /\ task[t].actions.reply_delay_min = 0
        /\ task[t].actions.reply_delay_max = 0
        /\ task[t].execs[Len(task[t].execs)].replies # <<>>
        /\ ~task[t].execs[Len(task[t].execs)].slept

\* --- C27

\* Task t takes the step in which it marks its message processed
MarkStep(t) == ~task[t].marked /\ task'[t].marked

\* The mark of an identity leaves the identity in the cache
MarkedIsSeen ==
    \A t \in DOMAIN task :
        MarkStep(t) =>
            IsMessageProcessed(processed_messages', UniqueId(task[t].message))

\* C27: right after the mark of an identity the identity is in the cache,
\* also when the mark evicts entries: the identity just marked is never one
\* of the evicted entries.
C27_MarkedIsSeen == [][MarkedIsSeen]_vars

\* --- C28

\* The mark of an identity that takes the cache above CacheLimit entries
\* evicts EvictCount entries in the same step; any other mark evicts none
EvictsInMark ==
    \A t \in DOMAIN task :
        MarkStep(t) =>
            LET inserted == processed_messages \cup {UniqueId(task[t].message)}
            IN  /\ processed_messages' \subseteq inserted
                /\ Cardinality(processed_messages') =
                        IF Cardinality(inserted) > CacheLimit
                        THEN Cardinality(inserted) - EvictCount
                        ELSE Cardinality(inserted)

\* C28: behind every mark the cache holds at most CacheLimit (10,000)
\* identities; an insertion that takes it above the limit evicts EvictCount
\* (5,000) entries within the mark, with no state in between that another
\* task could observe.
C28_CacheBounded ==
    /\ [](Cardinality(processed_messages) <= CacheLimit)
    /\ [][EvictsInMark]_vars

\* A mark into the full cache has evicted, and the cache is within its limit
C28_Witness ==
    /\ \E t \in DOMAIN task : task[t].marked
    /\ Cardinality(evicted) = EvictCount
    /\ Cardinality(processed_messages) = CacheLimit + 1 - EvictCount

\* --- C29

\* Monitor m has an allow-list of bot, channel or group ids
HasSpecificIds(m) ==
    cfg[m].bot_ids # {} \/ cfg[m].channel_ids # {} \/ cfg[m].group_ids # {}

\* The sender of the message is a bot listed in bot_ids of monitor m
ListedBot(m, message) ==
    message.is_bot /\ message.sender_id \in cfg[m].bot_ids

\* The chat or the sender of the message maps to an id in channel_ids
ListedChannel(m, message) ==
    \E config_id \in cfg[m].channel_ids :
        ChannelMatch(config_id, message.chat_id, message.sender_id)

\* The sender id of the message is in group_ids
ListedGroup(m, message) == message.sender_id \in cfg[m].group_ids

\* C29: a monitor with a non-empty allow-list of bot, channel or group ids
\* lets a message pass its precise-id filter, and so matches it, if and
\* only if the sender is a bot listed in bot_ids, or the chat or sender
\* maps to an id in channel_ids, or the sender id is in group_ids; a message
\* of a listed bot passes when only bot_ids is configured.
C29_PreciseIdFilter ==
    \A t \in DOMAIN task : \A k \in 1..Len(task[t].evals) :
        LET m == task[t].evals[k][1]
            result == task[t].evals[k][2]
            message == task[t].message
        IN  HasSpecificIds(m) =>
                (result = MATCHED <=>
                    \/ ListedBot(m, message)
                    \/ ListedChannel(m, message)
                    \/ ListedGroup(m, message))

\* The particular case of C29: with only bot_ids configured, the message of
\* a listed bot is matched.
ListedBotPasses ==
    \A t \in DOMAIN task : \A k \in 1..Len(task[t].evals) :
        LET m == task[t].evals[k][1]
        IN  (/\ cfg[m].channel_ids = {}
             /\ cfg[m].group_ids = {}
             /\ ListedBot(m, task[t].message)) =>
                task[t].evals[k][2] = MATCHED

\* --- C30

\* The message is on a block-list of monitor m: its sender id in
\* blocked_users, its sender a bot with its id in blocked_bots, its chat id
\* in blocked_channels, or the channel it was forwarded from in
\* blocked_channels
OnBlockList(m, message) ==
    \/ Str(message.sender_id) \in cfg[m].blocked_users
    \/ message.is_bot /\ message.sender_id \in cfg[m].blocked_bots
    \/ message.chat_id \in cfg[m].blocked_channels
    \/ message.forward_from_channel_id \cap cfg[m].blocked_channels # {}

\* C30: for a message that passes the rule filter of an active monitor the
\* evaluation returns Blocked, with no side effect of the match, no action
\* and no change of the count, whenever the sender id is in blocked_users,
\* the sender is a bot with its id in blocked_bots, the chat id is in
\* blocked_channels or the channel the message was forwarded from is in
\* blocked_channels; otherwise the block check does not reject.
C30_BlockList ==
    \A t \in DOMAIN task : \A k \in 1..Len(task[t].evals) :
        LET m == task[t].evals[k][1]
            result == task[t].evals[k][2]
            message == task[t].message
        IN  IF OnBlockList(m, message)
            THEN /\ result = BLOCKED
                 /\ matched_keyword[m] = <<>>
                 /\ ExecsOf(t, m) = {}
                 /\ execution_count[m] = 0
                 /\ active[m]
            ELSE result = MATCHED

\* A message forwarded from a blocked channel was blocked by the monitor
\* with the block-list, and matched and counted by the monitor without
C30_Witness ==
    \E t \in DOMAIN task : \E m1, m2 \in DOMAIN cfg :
        /\ task[t].pc = "done"
        /\ task[t].message.forward_from_channel_id # {}
        /\ cfg[m1].blocked_users = {} /\ cfg[m1].blocked_bots = {}
        /\ task[t].evals = <<<<m1, BLOCKED>>, <<m2, MATCHED>>>>
        /\ execution_count[m1] = 0
        /\ ExecsOf(t, m2) # {}

\* --- C31

\* The message carries a file of the extension of monitor m
HasExtension(m, message) ==
    \E media \in message.media :
        DotLower(media.file_extension) = DotLower(cfg[m].file_extension)

\* The size of the file of the message is known and below the min_size or
\* above the max_size of monitor m
SizeOutsideBounds(m, message) ==
    \E media \in message.media : \E size \in media.file_size_mb :
        \/ \E min_size \in cfg[m].min_size : size < min_size
        \/ \E max_size \in cfg[m].max_size : size > max_size

\* C31: a File monitor returns Matched only for a file whose size in MB is
\* within the configured min_size and max_size, each applied only when
\* set; a file of the configured extension with a size outside the bounds
\* is no match, is not forwarded and does not increment execution_count.
C31_FileSizeBounds ==
    \A t \in DOMAIN task : \A k \in 1..Len(task[t].evals) :
        LET m == task[t].evals[k][1]
            message == task[t].message
        IN  (cfg[m].kind = "File" /\ HasExtension(m, message)
                /\ SizeOutsideBounds(m, message)) =>
                    /\ task[t].evals[k][2] = NO_MATCH
                    /\ ExecsOf(t, m) = {}
                    /\ execution_count[m] = 0

\* --- C32

\* An AllMessages monitor with a target chat id matches messages of that
\* chat only
TargetChatOnly ==
    \A t \in DOMAIN task : \A k \in 1..Len(task[t].evals) :
        LET m == task[t].evals[k][1]
        IN  (cfg[m].kind = "AllMessages" /\ cfg[m].chat_id # 0
                /\ task[t].evals[k][2] = MATCHED) =>
                    task[t].message.chat_id = cfg[m].chat_id

\* An AllMessages monitor without a target chat id matches every message
\* that passes the rule filter, the block-list and the quota check
NoTargetMatchesAll ==
    \A t \in DOMAIN task : \A k \in 1..Len(task[t].evals) :
        LET m == task[t].evals[k][1]
        IN  (cfg[m].kind = "AllMessages" /\ cfg[m].chat_id = 0) =>
                task[t].evals[k][2] = MATCHED

\* C32: an AllMessages monitor with the single target chat id c, c # 0,
\* returns Matched only for messages of chat c; with no target chat id it
\* matches every message that passes the rule filter, the block-list and
\* the quota check.
C32_AllMessagesTargetChat == TargetChatOnly /\ NoTargetMatchesAll

\* --- C33

\* Monitor m is a regex monitor whose pattern does not compile
BadPattern(m) ==
    /\ cfg[m].kind = "Keyword"
    /\ cfg[m].match_type = "regex"
    /\ \E i \in 1..Len(cfg[m].keyword) : cfg[m].keyword[i] = "("

\* C33: a Keyword monitor of match type regex whose pattern does not
\* compile never raises and never yields Error: every evaluation of it is
\* NoMatch, no exception reaches the handler of a dispatch that evaluates
\* monitors, and the dispatch goes on to the next candidate.
C33_BadRegexIsNoMatch ==
    \A t \in DOMAIN task :
        /\ task[t].marked => ~task[t].failed
        /\ \A k \in 1..Len(task[t].evals) :
            BadPattern(task[t].evals[k][1]) =>
                /\ task[t].evals[k][2] = NO_MATCH
                /\ (task[t].pc = "done" /\ k < Len(task[t].monitors_list)) =>
                        /\ Len(task[t].evals) > k
                        /\ task[t].evals[k + 1][1] = task[t].monitors_list[k + 1]

\* A dispatch has ended in which the first monitor, with a pattern that
\* does not compile, was no match and the second one matched and forwarded
C33_Witness ==
    \E t \in DOMAIN task :
        /\ task[t].pc = "done"
        /\ Len(task[t].evals) = 2
        /\ BadPattern(task[t].evals[1][1])
        /\ task[t].evals[1][2] = NO_MATCH
        /\ ~BadPattern(task[t].evals[2][1])
        /\ task[t].evals[2][2] = MATCHED
        /\ ExecsOf(t, task[t].evals[2][1]) # {}

\* What the AI service returned to the k-th evaluation of task t, if that
\* evaluation awaited it
AiResponseAt(t, k) ==
    {c.ai_response : c \in {c \in ToSet(task[t].ai_calls) : c.eval = k}}

\* The k-th evaluation of task t is of an AI monitor whose AI service is
\* not configured, failed (None) or returned the empty answer
AIGaveNothing(t, k) ==
    /\ cfg[task[t].evals[k][1]].kind = "AI"
    /\ \/ ~ai_configured
       \/ AiResponseAt(t, k) \cap {{}, {<<>>}} # {}

\* C34: if the AI service is not configured, fails, or returns null or the
\* empty answer, the evaluation of an AI monitor is NoMatch, not Error: the
\* monitor executes no action, its execution_count stays as it was, and
\* the candidates behind it are still evaluated.
C34_AIFailureIsNoMatch ==
    \A t \in DOMAIN task :
        \A k \in 1..Len(task[t].evals) :
            AIGaveNothing(t, k) =>
                LET m == task[t].evals[k][1]
                IN  /\ task[t].evals[k][2] = NO_MATCH
                    /\ ExecsOf(t, m) = {}
                    /\ execution_count[m] = 0
                    /\ active[m]
                    /\ (task[t].pc = "done" /\ k < Len(task[t].monitors_list)) =>
                            /\ Len(task[t].evals) > k
                            /\ task[t].evals[k + 1][1] = task[t].monitors_list[k + 1]

\* A dispatch has ended in which the AI call of the first monitor failed,
\* the monitor was no match, and the keyword monitor behind it matched and
\* forwarded
C34_Witness ==
    \E t \in DOMAIN task :
        /\ task[t].pc = "done"
        /\ ai_configured
        /\ Len(task[t].evals) = 2
        /\ AiResponseAt(t, 1) = {{}}
        /\ task[t].evals[1][2] = NO_MATCH
        /\ cfg[task[t].evals[2][1]].kind = "Keyword"
        /\ task[t].evals[2][2] = MATCHED
        /\ ExecsOf(t, task[t].evals[2][1]) # {}

\* The answer is not in the structured verdict format
Unstructured(answer) ==
    ~(Contains(answer, JudgmentPrefix) /\ Contains(answer, ReplyPrefix))

\* The answer is one of the negative keywords and nothing else
SolelyNegative(answer) == answer \in ToSet(NegativeKeywords)

\* The answer holds neither a positive nor a negative keyword
NoKeyword(answer) ==
    LET response == RemovePunctuation(Strip(Lower(answer)))
    IN  \A keyword \in ToSet(PositiveKeywords) \cup ToSet(NegativeKeywords) :
            ~Contains(response, keyword)

\* C35: for an answer of the AI that is not in the structured verdict
\* format, the evaluation is NoMatch when the answer consists solely of a
\* negative keyword, and when it holds neither a positive nor a negative
\* keyword.
C35_NegativeAnswerIsNoMatch ==
    \A t \in DOMAIN task :
        \A k \in 1..Len(task[t].evals) :
            \A ai_response \in AiResponseAt(t, k) :
                \A answer \in ai_response :
                    (/\ answer # <<>>
                     /\ Unstructured(answer)
                     /\ SolelyNegative(answer) \/ NoKeyword(answer))
                        => task[t].evals[k][2] = NO_MATCH

\* The part of C35 the code keeps: an unstructured answer with neither a
\* positive nor a negative keyword is no match
C35_NoKeywordIsNoMatch ==
    \A t \in DOMAIN task :
        \A k \in 1..Len(task[t].evals) :
            \A ai_response \in AiResponseAt(t, k) :
                \A answer \in ai_response :
                    (answer # <<>> /\ Unstructured(answer) /\ NoKeyword(answer))
                        => task[t].evals[k][2] = NO_MATCH

\* Monitor m is registered and paused, its quota met, and the file holds
\* the pause
PausedInFile(m) ==
    /\ ~active[m]
    /\ cfg[m].max_executions # {}
    /\ \E i \in 1..Len(monitors_file) :
        /\ monitors_file[i].monitor = m
        /\ ~monitors_file[i].active

\* C36: a monitor paused by quota exhaustion stays paused across a save
\* and a reload: when the engine loads the file the pause was saved to,
\* the reloaded monitor has active = false.
C36_PauseSurvivesReload ==
    [][LoadMonitors => \A m \in DOMAIN cfg : PausedInFile(m) => ~active'[m]]_vars

\* The event handler is called for the event of task t while the
\* monitoring of the account is off
InactiveDelivery(t) ==
    /\ t \in DOMAIN task
    /\ task[t].pc = "idle"
    /\ task'[t].pc # "idle"
    /\ ~monitor_active

\* A delivery while the monitoring is off ends at once and leaves the
\* monitors, the dedup cache and the records of the task as they were
InactiveDrop ==
    \A t \in Tasks :
        InactiveDelivery(t) =>
            /\ task'[t].pc = "done"
            /\ task'[t].evals = <<>>
            /\ task'[t].execs = <<>>
            /\ ~task'[t].marked
            /\ UNCHANGED <<execution_count, active, matched_keyword,
                           monitors_file, processed_messages>>

\* The dedup cache holds only messages a dispatch went on to process
CacheOnlyProcessed ==
    \A id \in processed_messages :
        \E t \in DOMAIN task : task[t].marked /\ UniqueId(task[t].message) = id

\* C37: while account.monitor_active is false, process_message_event
\* evaluates no monitor, executes no action, changes no execution_count
\* and does not record the message in the dedup cache, so the same message
\* is still processed when it is redelivered after activation.
C37_InactiveAccountDrops == []CacheOnlyProcessed /\ [][InactiveDrop]_vars

\* The message of task t was dropped while the monitoring was off: the
\* dispatch ended without a sender lookup failure and without the dedup
\* check, the message being in no cache
DroppedInactive(t) ==
    /\ task[t].pc = "done"
    /\ ~task[t].marked
    /\ ~task[t].failed
    /\ task[t].evals = <<>>

\* A message was dropped while the monitoring was off, and its redelivery
\* after activation was evaluated, matched and forwarded
C37_Witness ==
    \E t, u \in DOMAIN task :
        /\ t # u
        /\ task[t].message = task[u].message
        /\ DroppedInactive(t)
        /\ monitor_active
        /\ task[u].pc = "done"
        /\ task[u].marked
        /\ \E k \in 1..Len(task[u].evals) : task[u].evals[k][2] = MATCHED
        /\ task[u].execs # <<>>
        /\ task[u].execs[1].forwards # <<>>

\* The texts the monitors of an action record match in the message
MatchedTexts(mons, message) ==
    UNION {ReSearch(cfg[m].keyword, message.text) : m \in ToSet(mons)}

\* C38: the reply a Keyword monitor derives from the matched text (reply
\* enabled, no reply_texts) for a message is the text matched in that
\* message, under any interleaving: a matched_keyword written for another
\* message during a suspension of the dispatch is never used for the reply.
C38_ReplyIsOwnMatch ==
    \A t \in DOMAIN task :
        \A e \in 1..Len(task[t].execs) :
            \A r \in 1..Len(task[t].execs[e].replies) :
                task[t].execs[e].replies[r].text
                    \in MatchedTexts(task[t].execs[e].mons, task[t].message)

\* The part of C38 the code keeps: the replies of the action records
\* whose monitors have no regex send, in a run where no monitor has one
C38_ReplyWithoutRegexSend ==
    (\A m \in DOMAIN cfg : ~RegexSends(m)) => C38_ReplyIsOwnMatch

\* The constructor has returned at most once, every call that returned
\* gave the one registered instance, and the lock of the class is held
\* only by a thread inside the with block
OneInstance ==
    /\ singleton.completed <= 1
    /\ \A th \in Threads :
        singleton.thread[th].pc = "returned" =>
            /\ singleton.thread[th].result # {}
            /\ singleton.thread[th].result = singleton.instances
    /\ \A a, b \in Threads :
        (singleton.thread[a].pc = "returned" /\ singleton.thread[b].pc = "returned")
            => singleton.thread[a].result = singleton.thread[b].result
    /\ \A lock \in Threads : \A th \in singleton.holder[lock] :
        singleton.thread[th].pc \in {"l26", "l28"}

\* The constructor called by thread th raises in this step
ConstructorRaises(th) ==
    /\ singleton.thread[th].pc = "l28"
    /\ singleton'.thread[th].pc = "raised"

\* A constructor that raises registers no instance and leaves no lock
\* held, so that the next call finds no instance under the lock and
\* constructs
RaiseLeavesNothing ==
    \A th \in Threads :
        ConstructorRaises(th) =>
            /\ singleton'.instances = {}
            /\ singleton'.completed = singleton.completed
            /\ \A lock \in Threads : singleton'.holder[lock] = {}

\* C39: under concurrent first-time instantiation of a Singleton class
\* from several threads the constructor completes at most once and every
\* call returns the same instance; if the constructor raises, no instance
\* is registered, the lock is released, and a later call constructs afresh.
C39_SingletonOnce == []OneInstance /\ [][RaiseLeavesNothing]_vars

\* A constructor raised, a later call constructed the instance, and two
\* threads have returned it
C39_Witness ==
    /\ singleton.completed = 1
    /\ singleton.after_raise
    /\ \E a, b \in Threads :
        /\ a # b
        /\ singleton.thread[a].pc = "returned"
        /\ singleton.thread[b].pc = "returned"
        /\ singleton.thread[a].result = {1}
        /\ singleton.thread[b].result = {1}

====
